---------------------------- MODULE Spec2Model ----------------------------
(***************************************************************************)
(* Nightblade-Runner: the gameplay core (GameScene, Player, Enemy,         *)
(* ParticleSystem) as a state machine.                                     *)
(*                                                                         *)
(* Numbers.  The program computes with Python floats.  The model uses      *)
(* exact fixed-point integers:                                             *)
(*   - positions in 1/1000 pixel (Unit per pixel), velocities in 1/1000    *)
(*     pixel per reference frame;                                          *)
(*   - the frame time dt in tenths of a reference frame (dt = 20 is the    *)
(*     cap 2.0 of main.py:72);                                             *)
(*   - timers in the code's own unit: dt * 1000 is Ms(dt) = 100 * dt.      *)
(* With these units every product the code forms is an integer, so the     *)
(* arithmetic of the model is the code's arithmetic without rounding.      *)
(***************************************************************************)
EXTENDS Integers, Sequences, FiniteSets

\* ------------------------------------------------------------ units
Unit == 10 * 10 * 10

Ms(dt) == 100 * dt

Scaled(v, dt) == (v * dt) \div 10

Max2(a, b) == IF a >= b THEN a ELSE b

Min2(a, b) == IF a <= b THEN a ELSE b

\* Python int(): truncation toward zero of a value held in 1/1000.
IntOf(v) == IF v >= 0 THEN v \div Unit ELSE -((-v) \div Unit)

\* ------------------------------------------------------------ constants.py
WINDOW_WIDTH == 1024

WINDOW_HEIGHT == 768

PLAYER_WIDTH == 96

PLAYER_HEIGHT == 96

\* 5 pixels per frame, in 1/1000 pixel
PLAYER_SPEED == 5000

\* -15 pixels per frame, in 1/1000 pixel
PLAYER_JUMP_STRENGTH == -15000

\* 0.8 pixels per frame, in 1/1000 pixel
PLAYER_GRAVITY == 800

PLAYER_GROUND_Y == WINDOW_HEIGHT - PLAYER_HEIGHT - 50

ENEMY_WIDTH == 96

ENEMY_HEIGHT == 96

\* 1.0 pixel per frame, in 1/1000 pixel
ENEMY_BASE_SPEED == 1000

ATTACK_RANGE == 10

ATTACK_COOLDOWN == 800

PLAYER_HEALTH == 100

\* ------------------------------------------------------------ bounds
\* operations explored per run of the scene: updates that run the gameplay
\* logic and key events (an update skipped by pause, game-over or hit-stop
\* is not counted)
MaxSteps == 2

\* operations explored per run when the objects are driven call by call
MaxCalls == 2

\* Player.update calls explored when the player is driven call by call
MaxUpdates == 3

\* operations explored per run of the main loop: frames and key events
MaxMain == 3

\* operations explored per run when the scene is started from a save file
MaxStarts == 2

\* operations explored per run when _change_scene is driven call by call
MaxScenes == 2

\* bursts emitted per run when the particle system is driven call by call
MaxBursts == 2

\* operations explored from a scene late in a run: updates that run the
\* gameplay logic and restarts
MaxRun == 3

\* ------------------------------------------------------------ inputs
\* frame times: 0, 0.4 and the cap 2.0
DtSet == {0, 4, 20}

\* frame times when Player.update is driven call by call: 0.1, 0.4, 1.0, 2.0
DtPlayer == {1, 4, 10, 20}

NoKeys == [left |-> FALSE, right |-> FALSE, up |-> FALSE, shift |-> FALSE, attack |-> FALSE]

\* the key states explored: nothing, attack, dash, dash + attack, left, jump
KeyStates ==
    { NoKeys,
      [NoKeys EXCEPT !.attack = TRUE],
      [NoKeys EXCEPT !.shift = TRUE],
      [NoKeys EXCEPT !.shift = TRUE, !.attack = TRUE],
      [NoKeys EXCEPT !.left = TRUE],
      [NoKeys EXCEPT !.up = TRUE] }

\* the key states held during the frames of the main loop: nothing, attack
MainKeys == { NoKeys, [NoKeys EXCEPT !.attack = TRUE] }

\* scene names passed to _change_scene: the registered ones and two others
SceneRequests == { "splash_screen", "main_menu", "game_scene", "credits", "exit" }

\* the data passed along: None, or a dict with this "action"
SceneData == { "", "new_game", "continue" }

\* random draws of _spawn_single_enemy: side (0 left, 1 right), distance in
\* [600, 1000], speed variance in [0.8, 1.3] (in tenths)
SpawnChoices ==
    { [side |-> 0, distance |-> 600, variance |-> 8],
      [side |-> 1, distance |-> 1000, variance |-> 13] }

NoChoice == [side |-> 0, distance |-> 0, variance |-> 0]

\* random.uniform(20, 40): the lifetime drawn for the particles of a frame
ParticleLifetimes == {20, 40}

\* the count of a burst when the particle system is driven call by call:
\* dash dust (line 204) and a hit on the player (line 258)
BurstCounts == {2, 5}

\* amounts passed to take_damage when the objects are driven directly
DamageAmounts == {0, 1, 150}

\* records found in data/savegame.json that the game did not write itself:
\* one with every key, one with a zero "score", one with "level" alone
SaveFiles ==
    { [level |-> 2, score |-> 7, player_health |-> 40, enemies_defeated |-> 3],
      [level |-> 1, score |-> 0, player_health |-> 100, enemies_defeated |-> 4],
      [level |-> 1] }

\* data/savegame.json in a state json.load cannot return a record from: open()
\* fails (IOError), the text is not JSON (JSONDecodeError), the bytes are not
\* text in the encoding of open() (UnicodeDecodeError)
Unreadable == [kind |-> "unreadable"]

Malformed == [kind |-> "malformed"]

Undecodable == [kind |-> "undecodable"]

BadFiles == { Unreadable, Malformed, Undecodable }

\* ------------------------------------------------------------ helpers.py
Rect(x, y, w, h) == [x |-> x, y |-> y, w |-> w, h |-> h]

\* load_savegame, lines 21-25
default_save == [level |-> 0, player_health |-> 100, enemies_defeated |-> 0]

\* faulty variant of save_savegame: the health passed in lands in "level"
save_savegame_swapped(level, player_health, enemies_defeated) ==
    [level |-> player_health, player_health |-> level,
     enemies_defeated |-> enemies_defeated]

\* faulty variant of save_savegame: the score lands in "level" too
save_savegame_level(level, player_health, enemies_defeated) ==
    [level |-> enemies_defeated, player_health |-> player_health,
     enemies_defeated |-> enemies_defeated]

\* save_savegame: the record written to the file
save_savegame(level, player_health, enemies_defeated) ==
    [level |-> level, player_health |-> player_health,
     enemies_defeated |-> enemies_defeated]

\* faulty variant of save_get: a missing key reads as 0
save_get_zero(data, key, default) == IF key \in DOMAIN data THEN data[key] ELSE 0

\* dict.get(key, default) on a record read from the file
save_get(data, key, default) == IF key \in DOMAIN data THEN data[key] ELSE default

\* pygame.Rect.colliderect: overlap of positive area
check_collision(r1, r2) ==
    /\ r1.x < r2.x + r2.w
    /\ r2.x < r1.x + r1.w
    /\ r1.y < r2.y + r2.h
    /\ r2.y < r1.y + r1.h

\* ------------------------------------------------------------ player.py
Player_init(x, y) ==
    [ x |-> x * Unit, y |-> y * Unit, velocity_x |-> 0, velocity_y |-> 0,
      on_ground |-> FALSE, state |-> "idle", facing_right |-> TRUE,
      health |-> PLAYER_HEALTH, max_health |-> PLAYER_HEALTH,
      attack_cooldown |-> 0, dash_cooldown |-> 0, dash_time |-> 0,
      is_dashing |-> FALSE ]

\* dash_speed = PLAYER_SPEED * 2.5
dash_speed == (PLAYER_SPEED * 25) \div 10

Player_rect(p) == Rect(IntOf(p.x), IntOf(p.y), PLAYER_WIDTH, PLAYER_HEIGHT)

\* faulty variant of Player_is_alive: a player at health 0 counts as alive
Player_is_alive_at0(p) == p.health >= 0

Player_is_alive(p) == p.health > 0

\* faulty variant of start_dash: the dash cooldown is not armed
start_dash_nocooldown(p) ==
    [p EXCEPT !.is_dashing = TRUE, !.dash_time = 200]

start_dash(p) ==
    [p EXCEPT !.is_dashing = TRUE, !.dash_time = 200, !.dash_cooldown = 1000]

\* max(0, min(x, WINDOW_WIDTH - PLAYER_WIDTH))
Player_clamp_x(x) == Max2(0, Min2(x, (WINDOW_WIDTH - PLAYER_WIDTH) * Unit))

\* faulty variant of Player_dash_timers: the dash ends at dash_time < 0
Player_dash_timers_late(p, keys, dt) ==
    LET p1 == IF p.dash_cooldown > 0
              THEN [p EXCEPT !.dash_cooldown = @ - Ms(dt)]
              ELSE p
        p2 == IF p1.is_dashing
              THEN LET t == p1.dash_time - Ms(dt)
                   IN  IF t < 0
                       THEN [p1 EXCEPT !.dash_time = t, !.is_dashing = FALSE,
                                       !.velocity_x = 0]
                       ELSE [p1 EXCEPT !.dash_time = t]
              ELSE p1
    IN  IF keys.shift /\ p2.dash_cooldown <= 0 /\ ~p2.is_dashing
        THEN start_dash(p2)
        ELSE p2

\* Player.update, lines 82-94: the dash timers and the dash trigger
Player_dash_timers(p, keys, dt) ==
    LET p1 == IF p.dash_cooldown > 0
              THEN [p EXCEPT !.dash_cooldown = @ - Ms(dt)]
              ELSE p
        p2 == IF p1.is_dashing
              THEN LET t == p1.dash_time - Ms(dt)
                   IN  IF t <= 0
                       THEN [p1 EXCEPT !.dash_time = t, !.is_dashing = FALSE,
                                       !.velocity_x = 0]
                       ELSE [p1 EXCEPT !.dash_time = t]
              ELSE p1
    IN  IF keys.shift /\ p2.dash_cooldown <= 0 /\ ~p2.is_dashing
        THEN start_dash(p2)
        ELSE p2

\* faulty variant of Player_dash_move: the attack cooldown is counted down
\* while dashing
Player_dash_move_cooldown(p, dt) ==
    LET vx == IF p.facing_right THEN dash_speed ELSE -dash_speed
    IN  [p EXCEPT !.velocity_x = vx, !.velocity_y = 0,
                  !.x = Player_clamp_x(p.x + Scaled(vx, dt)),
                  !.attack_cooldown = IF @ > 0 THEN @ - Ms(dt) ELSE @]

\* Player.update, lines 97-110: the dash path (early return)
Player_dash_move(p, dt) ==
    LET vx == IF p.facing_right THEN dash_speed ELSE -dash_speed
    IN  [p EXCEPT !.velocity_x = vx, !.velocity_y = 0,
                  !.x = Player_clamp_x(p.x + Scaled(vx, dt))]

\* faulty variant of Player_cooldown_tick: the cooldown is never counted down
Player_cooldown_tick_never(p, dt) == p

\* Player.update, lines 162-164: the attack cooldown countdown
Player_cooldown_tick(p, dt) ==
    IF p.attack_cooldown > 0
    THEN [p EXCEPT !.attack_cooldown = @ - Ms(dt)]
    ELSE p

\* faulty variant of Player_normal_move: a landing does not snap y to the
\* ground line
Player_normal_move_nosnap(p, keys, dt) ==
    LET vx == IF keys.left THEN -PLAYER_SPEED
              ELSE IF keys.right THEN PLAYER_SPEED ELSE 0
        fr == IF keys.left THEN FALSE ELSE IF keys.right THEN TRUE ELSE p.facing_right
        st1 == IF p.on_ground
               THEN (IF keys.left \/ keys.right THEN "run" ELSE "idle")
               ELSE p.state
        jump == keys.up /\ p.on_ground
        vy1 == IF jump THEN PLAYER_JUMP_STRENGTH ELSE p.velocity_y
        og1 == IF jump THEN FALSE ELSE p.on_ground
        st2 == IF jump THEN "jump" ELSE st1
        vy2 == IF ~og1 THEN vy1 + PLAYER_GRAVITY ELSE vy1
        st3 == IF ~og1 THEN "jump" ELSE st2
        x1 == p.x + Scaled(vx, dt)
        y1 == p.y + Scaled(vy2, dt)
        landed == y1 >= PLAYER_GROUND_Y * Unit
        moved == [p EXCEPT
                    !.velocity_x = vx,
                    !.facing_right = fr,
                    !.velocity_y = IF landed THEN 0 ELSE vy2,
                    !.on_ground = IF landed THEN TRUE ELSE og1,
                    !.state = IF landed /\ st3 = "jump" THEN "idle" ELSE st3,
                    !.y = y1,
                    !.x = Player_clamp_x(x1)]
    IN  Player_cooldown_tick(moved, dt)

\* Player.update, lines 112-167: movement, jump, gravity, ground, clamp, cooldown
Player_normal_move(p, keys, dt) ==
    LET vx == IF keys.left THEN -PLAYER_SPEED
              ELSE IF keys.right THEN PLAYER_SPEED ELSE 0
        fr == IF keys.left THEN FALSE ELSE IF keys.right THEN TRUE ELSE p.facing_right
        st1 == IF p.on_ground
               THEN (IF keys.left \/ keys.right THEN "run" ELSE "idle")
               ELSE p.state
        jump == keys.up /\ p.on_ground
        vy1 == IF jump THEN PLAYER_JUMP_STRENGTH ELSE p.velocity_y
        og1 == IF jump THEN FALSE ELSE p.on_ground
        st2 == IF jump THEN "jump" ELSE st1
        vy2 == IF ~og1 THEN vy1 + PLAYER_GRAVITY ELSE vy1
        st3 == IF ~og1 THEN "jump" ELSE st2
        x1 == p.x + Scaled(vx, dt)
        y1 == p.y + Scaled(vy2, dt)
        landed == y1 >= PLAYER_GROUND_Y * Unit
        moved == [p EXCEPT
                    !.velocity_x = vx,
                    !.facing_right = fr,
                    !.velocity_y = IF landed THEN 0 ELSE vy2,
                    !.on_ground = IF landed THEN TRUE ELSE og1,
                    !.state = IF landed /\ st3 = "jump" THEN "idle" ELSE st3,
                    !.y = IF landed THEN PLAYER_GROUND_Y * Unit ELSE y1,
                    !.x = Player_clamp_x(x1)]
    IN  Player_cooldown_tick(moved, dt)

Player_update(p, keys, dt) ==
    LET p1 == Player_dash_timers(p, keys, dt)
    IN  IF p1.is_dashing
        THEN Player_dash_move(p1, dt)
        ELSE Player_normal_move(p1, keys, dt)

\* faulty variant of Player_attack: the cooldown does not gate the attack
Player_attack_ungated(p) ==
    [ok |-> TRUE, player |-> [p EXCEPT !.attack_cooldown = ATTACK_COOLDOWN]]

\* faulty variant of Player_attack: a successful attack arms no cooldown
Player_attack_nocooldown(p) ==
    IF p.attack_cooldown <= 0
    THEN [ok |-> TRUE, player |-> p]
    ELSE [ok |-> FALSE, player |-> p]

\* Player.attack: the result and the player after the call
Player_attack(p) ==
    IF p.attack_cooldown <= 0
    THEN [ok |-> TRUE, player |-> [p EXCEPT !.attack_cooldown = ATTACK_COOLDOWN]]
    ELSE [ok |-> FALSE, player |-> p]

get_attack_rect(p) ==
    LET attack_x == IF p.facing_right
                    THEN p.x + PLAYER_WIDTH * Unit
                    ELSE p.x - ATTACK_RANGE * Unit
    IN  Rect(IntOf(attack_x), IntOf(p.y), ATTACK_RANGE, PLAYER_HEIGHT)

\* faulty variant of Player_take_damage: health is not floored at 0
Player_take_damage_nofloor(p, amount) ==
    IF p.is_dashing THEN p ELSE [p EXCEPT !.health = @ - amount]

Player_take_damage(p, amount) ==
    IF p.is_dashing
    THEN p
    ELSE [p EXCEPT !.health = IF @ - amount < 0 THEN 0 ELSE @ - amount]

\* ------------------------------------------------------------ enemy.py
\* faulty variant of Enemy_init: a sensor radius of 300 pixels
Enemy_init_sensor(x, y, speed) ==
    [ x |-> x, y |-> y, velocity_x |-> 0, velocity_y |-> 0,
      on_ground |-> FALSE, state |-> "idle", facing_right |-> TRUE,
      speed |-> speed, health |-> 1, detection_range |-> 300 ]

Enemy_init(x, y, speed) ==
    [ x |-> x, y |-> y, velocity_x |-> 0, velocity_y |-> 0,
      on_ground |-> FALSE, state |-> "idle", facing_right |-> TRUE,
      speed |-> speed, health |-> 1, detection_range |-> 3000 ]

Enemy_rect(e) == Rect(IntOf(e.x), IntOf(e.y), ENEMY_WIDTH, ENEMY_HEIGHT)

Enemy_is_alive(e) == e.health > 0

\* faulty variant of Enemy_clamp_x: no clamp
Enemy_clamp_x_none(x) == x

\* max(0, min(x, WINDOW_WIDTH - ENEMY_WIDTH))
Enemy_clamp_x(x) == Max2(0, Min2(x, (WINDOW_WIDTH - ENEMY_WIDTH) * Unit))

Enemy_update(e, player_x, dt) ==
    LET d == IF e.x >= player_x THEN e.x - player_x ELSE player_x - e.x
        near == d < e.detection_range * Unit
        vx == IF near /\ e.x < player_x THEN e.speed
              ELSE IF near /\ e.x > player_x THEN -e.speed ELSE 0
        fr == IF near /\ e.x < player_x THEN TRUE
              ELSE IF near /\ e.x > player_x THEN FALSE ELSE e.facing_right
        st == IF e.on_ground
              THEN (IF near /\ e.x # player_x THEN "run" ELSE "idle")
              ELSE e.state
    IN  [e EXCEPT !.velocity_x = vx, !.facing_right = fr, !.state = st,
                  !.velocity_y = 0, !.on_ground = TRUE,
                  !.x = Enemy_clamp_x(e.x + Scaled(vx, dt)),
                  !.y = PLAYER_GROUND_Y * Unit]

Enemy_take_damage(e, amount) ==
    [e EXCEPT !.health = IF @ - amount < 0 THEN 0 ELSE @ - amount]

\* ------------------------------------------------------------ particle_system.py
\* A particle is its remaining lifetime (position, velocity, colour and size
\* take no part in any decision of the program).
ParticleSystem_emit(ps, count, life) == ps \o [i \in 1..count |-> life]

\* faulty variant of Particle_update: the lifetime is not counted down
Particle_update_noage(l, dt) == l

Particle_update(l, dt) == l - dt

\* faulty variant of ParticleSystem_update: a particle at lifetime 0 is kept
ParticleSystem_update_keep0(ps, dt) ==
    LET aged == [i \in 1..Len(ps) |-> Particle_update(ps[i], dt)]
    IN  SelectSeq(aged, LAMBDA l : l >= 0)

ParticleSystem_update(ps, dt) ==
    LET aged == [i \in 1..Len(ps) |-> Particle_update(ps[i], dt)]
    IN  SelectSeq(aged, LAMBDA l : l > 0)


\* ------------------------------------------------------------ game_scene.py
VARIABLES
    player,                 \* GameScene.player (a Player)
    enemies,                \* GameScene.enemies, in list order
    score,
    max_enemies_on_screen,
    spawn_timer,
    screen_shake,
    hit_stop_duration,
    combo_count,
    combo_timer,
    paused,
    game_over,
    particles,              \* ParticleSystem.particles
    savegame,               \* the record in data/savegame.json, or NoSave
    obs,                    \* history: what the last operation did
    lastKill,               \* history: frozen updates counted since the last kill
    since,                  \* history: time counted since the last successful attack
    hurt,                   \* history: cooldown counted down since the last contact damage
    dash,                   \* history: the dashes of a player driven call by call
    current_scene,          \* Game.current_scene
    menu,                   \* MainMenu: selected_option, save_exists
    pauseAt,                \* history: the pause inputs and the scene when the pause began
    running,                \* Game.running
    crashed,                \* an exception has left Game.run uncaught
    steps                   \* history: operations counted against the bounds

vars == << player, enemies, score, max_enemies_on_screen, spawn_timer,
           screen_shake, hit_stop_duration, combo_count, combo_timer, paused,
           game_over, particles, savegame, obs, lastKill, since, hurt, dash,
           current_scene, menu, pauseAt, running, crashed, steps >>

\* what the scene driven alone leaves as it is
loopVars == << dash, current_scene, menu, pauseAt, running, crashed >>

spawn_interval == 2000

combo_timeout == 3000

NoSave == [level |-> -1, player_health |-> -1, enemies_defeated |-> -1]

\* load_savegame, lines 30-36: the exceptions of open() and json.load() that
\* the except clause (JSONDecodeError, IOError) does not catch
load_raises(file) == file = Undecodable

\* load_savegame: the record of the file; the default one when there is no
\* file (lines 27-28) or the except clause is taken (lines 34-36)
load_savegame(file) ==
    IF file = NoSave \/ file \in {Unreadable, Malformed} THEN default_save ELSE file

\* ---- main_menu.py
\* check_save_file
check_save_file(file) == save_get(load_savegame(file), "level", 0) > 0

\* MainMenu.start; the options are 0 New Game, 1 Continue, 2 Exit
MainMenu_start(file) == [selected_option |-> 0, save_exists |-> check_save_file(file)]

\* handle_event, lines 79-84: K_UP
MainMenu_up(m) ==
    LET o == (m.selected_option - 1) % 3
    IN  [m EXCEPT !.selected_option = IF o = 1 /\ ~m.save_exists THEN (o - 1) % 3 ELSE o]

\* faulty variant of MainMenu_down: Continue is not skipped
MainMenu_down_noskip(m) ==
    [m EXCEPT !.selected_option = (m.selected_option + 1) % 3]

\* handle_event, lines 86-91: K_DOWN
MainMenu_down(m) ==
    LET o == (m.selected_option + 1) % 3
    IN  [m EXCEPT !.selected_option = IF o = 1 /\ ~m.save_exists THEN (o + 1) % 3 ELSE o]

\* _select_option: the scene asked for ("" for none) and the action
select_option(m) ==
    IF m.selected_option = 0 THEN [scene |-> "game_scene", action |-> "new_game"]
    ELSE IF m.selected_option = 1
         THEN (IF m.save_exists
               THEN [scene |-> "game_scene", action |-> "continue"]
               ELSE [scene |-> "", action |-> ""])
         ELSE [scene |-> "exit", action |-> ""]

\* _spawn_single_enemy: the enemy built from the draws c
spawn_single_enemy(sc, p, c) ==
    LET enemy_speed == (ENEMY_BASE_SPEED * (10 + (sc \div 10)) * c.variance) \div 100
        player_x == IntOf(p.x)
        spawn_x == IF c.side = 0 THEN player_x - c.distance ELSE player_x + c.distance
    IN  Enemy_init(spawn_x * Unit, PLAYER_GROUND_Y * Unit, enemy_speed)

\* faulty variant of maintain_spawns: it spawns whatever the count
maintain_spawns_always(es, cap) == TRUE

\* faulty variant of maintain_spawns: it spawns when the count is at the cap
maintain_spawns_le(es, cap) == Len(es) <= cap

\* _maintain_enemies: whether it spawns
maintain_spawns(es, cap) == Len(es) < cap

\* ---- history records (not program state)
NoObs ==
    [ op |-> "init", ran |-> FALSE, frozen |-> FALSE,
      tried |-> FALSE, ok |-> FALSE, attack_changed |-> FALSE,
      cd_before |-> 0, cd_after |-> 0,
      overlap |-> {}, hit |-> 0, died |-> FALSE,
      hp_before |-> << >>, hp_after |-> << >>,
      combo_decayed |-> 0, kill_spawns |-> 0, tick_spawns |-> 0,
      touched |-> FALSE, hits |-> 0, dashing |-> FALSE, amount |-> 0,
      mid |-> [health |-> 0, attack_cooldown |-> 0, combo_count |-> 0],
      tick |-> FALSE, n_alive |-> 0, dt |-> 0,
      request |-> "", started |-> "",
      parts_kept |-> 0, parts_zero |-> FALSE, emitted |-> 0,
      hurt |-> [known |-> FALSE, counted |-> 0],
      player |-> << >>, keys |-> NoKeys, aged |-> 0,
      player_x |-> 0, seen |-> << >>,
      pre |-> [health |-> 0, score |-> 0, combo_count |-> 0, n_enemies |-> 0,
               screen_shake |-> 0, combo_timer |-> 0, hit_stop |-> 0,
               game_over |-> FALSE, enemy_health |-> 0,
               spawn_timer |-> 0, max_enemies |-> 0, n_particles |-> 0,
               current_scene |-> "", selected_option |-> 0],
      elapsed |-> [valid |-> FALSE, all |-> 0, upd |-> 0, normal |-> 0, hit |-> FALSE],
      kill |-> [known |-> FALSE, frozen |-> 0, ms |-> 0],
      saves |-> 0 ]

\* since: the time counted since the last successful attack of this player
\*   valid   an attack has succeeded
\*   all     sum of dt*1000 over the GameScene.update calls since then
\*   upd     sum of dt*1000 over the Player.update calls since then
\*   normal  the same, over the Player.update calls that took the normal path
\*   hit     the player has been damaged by an enemy since then
NoSince == [valid |-> FALSE, all |-> 0, upd |-> 0, normal |-> 0, hit |-> FALSE]

\* lastKill: whether an enemy has been killed in this run, the updates frozen
\* by hit-stop since the last kill, and the sum of dt*1000 over the updates
\* that ran the gameplay logic since the update of the last kill
NoKill == [known |-> FALSE, frozen |-> 0, ms |-> 0]

\* the counter saturates at the combo timeout: only "at least 3000" is asked
ComboSat(v) == Min2(v, combo_timeout)

\* hurt: whether an enemy has damaged this player, and the amount Player.update
\* has counted down from attack_cooldown since the last time one did
NoHurt == [known |-> FALSE, counted |-> 0]

\* the counter saturates at the 1200 of line 254: only "at least 1200" is asked
HurtSat(v) == Min2(v, 1200)

\* dash: the dashes seen while Player.update is called on the player directly
\*   valid    a dash has started
\*   upd      sum of dt*1000 over the Player.update calls since the last start
\*   cd0      dash_cooldown was exactly 0 when that dash was triggered
\* and, about the last call:
\*   known    a dash had started before the call
\*   was0     cd0 of that earlier dash
\*   before   upd on entry to the call
\*   at       upd on entry plus the dt*1000 of the call
\*   started  the call started a dash
\*   held     the dash key was held
\*   moving   a left or right key was held
\*   entered  is_dashing on entry to the call
NoDash ==
    [ valid |-> FALSE, upd |-> 0, cd0 |-> FALSE,
      known |-> FALSE, was0 |-> FALSE, before |-> 0, at |-> 0,
      started |-> FALSE, held |-> FALSE, moving |-> FALSE, entered |-> FALSE ]

\* the counters saturate at the dash cooldown: only "at least 1000" is asked
DashSat(v) == Min2(v, 1000)

\* pauseAt: the pause inputs since the game last ran unpaused
\*   inputs  0: none; 1: the game was paused by one; 2: a second one followed
\*   score, player, enemies: the scene when the pause began
NoPause == [inputs |-> 0, score |-> 0, player |-> << >>, enemies |-> << >>]

Pre ==
    [ health |-> player.health, score |-> score, combo_count |-> combo_count,
      n_enemies |-> Len(enemies), screen_shake |-> screen_shake,
      combo_timer |-> combo_timer, hit_stop |-> hit_stop_duration,
      game_over |-> game_over, enemy_health |-> 0,
      spawn_timer |-> spawn_timer, max_enemies |-> max_enemies_on_screen,
      n_particles |-> Len(particles), current_scene |-> current_scene,
      selected_option |-> menu.selected_option ]

\* time counters saturate at the attack cooldown: only "at least 800" is asked
Sat(v) == Min2(v, ATTACK_COOLDOWN)


\* faulty variant of AttackLoop: no break, every overlapping enemy is damaged
RECURSIVE AttackLoop_nobreak(_, _, _)
AttackLoop_nobreak(es, r, i) ==
    IF i > Len(es)
    THEN [enemies |-> es, hit |-> 0]
    ELSE IF Enemy_is_alive(es[i]) /\ check_collision(r, Enemy_rect(es[i]))
         THEN LET rest == AttackLoop_nobreak(
                              [es EXCEPT ![i] = Enemy_take_damage(@, 1)], r, i + 1)
              IN  [enemies |-> rest.enemies, hit |-> i]
         ELSE AttackLoop_nobreak(es, r, i + 1)

\* ---- GameScene.update, lines 213-239: the scan of the enemies by an attack.
\* The result is the list after the damage and the index that was hit (0: none).
RECURSIVE AttackLoop(_, _, _)
AttackLoop(es, r, i) ==
    IF i > Len(es)
    THEN [enemies |-> es, hit |-> 0]
    ELSE IF Enemy_is_alive(es[i]) /\ check_collision(r, Enemy_rect(es[i]))
         THEN [enemies |-> [es EXCEPT ![i] = Enemy_take_damage(@, 1)], hit |-> i]
         ELSE AttackLoop(es, r, i + 1)

\* line 230: the heal milestone
heal_due(sc) == sc > 0 /\ sc % 10 = 0

\* faulty variant of heal: no cap at max_health
heal_uncapped(p) == [p EXCEPT !.health = p.health + 10]

\* line 232
heal(p) == [p EXCEPT !.health = Min2(p.max_health, p.health + 10)]

\* faulty variant of can_be_hit: the dash is not looked at
can_be_hit_dashing(p) == p.attack_cooldown <= 0

\* line 252: whether an overlapping enemy damages the player
can_be_hit(p) == p.attack_cooldown <= 0 /\ ~p.is_dashing

\* faulty variant of contact_hit: the combo is not reset
contact_hit_keeps_combo(acc) ==
    LET p1 == Player_take_damage(acc.player, 1)
    IN  [acc EXCEPT !.player = [p1 EXCEPT !.attack_cooldown = 1200],
                    !.screen_shake = 5,
                    !.hits = @ + 1]

\* faulty variant of contact_hit: the invincibility window is not armed
contact_hit_nowindow(acc) ==
    LET p1 == Player_take_damage(acc.player, 1)
    IN  [acc EXCEPT !.player = p1,
                    !.screen_shake = 5,
                    !.combo_count = 0,
                    !.hits = @ + 1]

\* lines 253-259: the player is hit by an enemy
contact_hit(acc) ==
    LET p1 == Player_take_damage(acc.player, 1)
    IN  [acc EXCEPT !.player = [p1 EXCEPT !.attack_cooldown = 1200],
                    !.screen_shake = 5,
                    !.combo_count = 0,
                    !.hits = @ + 1]

\* lines 244-259: every live enemy is updated, then tested against the player
RECURSIVE EnemyLoop(_, _, _, _)
EnemyLoop(acc, player_x, dt, i) ==
    IF i > Len(acc.enemies)
    THEN acc
    ELSE IF ~Enemy_is_alive(acc.enemies[i])
         THEN EnemyLoop(acc, player_x, dt, i + 1)
         ELSE LET e1 == Enemy_update(acc.enemies[i], player_x, dt)
                  col == check_collision(Enemy_rect(e1), Player_rect(acc.player))
                  acc1 == [acc EXCEPT !.enemies[i] = e1, !.touched = @ \/ col]
                  acc2 == IF col /\ can_be_hit(acc1.player)
                          THEN contact_hit(acc1)
                          ELSE acc1
              IN  EnemyLoop(acc2, player_x, dt, i + 1)

\* lines 181-184
shake_decay(sh, dt) == IF sh > 0 THEN Max2(sh - 2 * dt, 0) ELSE sh

\* faulty variant of remove_dead: nothing is removed
remove_dead_none(es) == es

\* line 262
remove_dead(es) == SelectSeq(es, Enemy_is_alive)

\* faulty variant of enemy_cap: no cap at 10
enemy_cap_uncapped(sc) == 3 + (sc \div 5)

\* line 271-272
enemy_cap(sc) == Min2(3 + (sc \div 5), 10)

\* faulty variant of UpdateSkipped: the screen shake decays during hit-stop
UpdateSkipped_shake(dt) ==
    /\ paused \/ game_over \/ hit_stop_duration > 0
    /\ hit_stop_duration' =
           IF ~(paused \/ game_over) THEN hit_stop_duration - 1 ELSE hit_stop_duration
    /\ screen_shake' = IF ~(paused \/ game_over) /\ screen_shake > 0
                       THEN IF screen_shake - 2 * dt < 0 THEN 0 ELSE screen_shake - 2 * dt
                       ELSE screen_shake
    /\ UNCHANGED << player, enemies, score, max_enemies_on_screen, spawn_timer,
                    combo_count, combo_timer, paused, game_over,
                    particles, savegame, hurt, steps >>
    /\ obs' = [NoObs EXCEPT !.op = "update", !.frozen = ~(paused \/ game_over),
                            !.pre = Pre]
    /\ lastKill' = IF ~(paused \/ game_over)
                   THEN [lastKill EXCEPT !.frozen = @ + 1]
                   ELSE lastKill
    /\ since' = IF since.valid THEN [since EXCEPT !.all = Sat(@ + Ms(dt))] ELSE since

\* faulty variant of UpdateSkipped: hit-stop is counted down before the pause
\* and game-over test
UpdateSkipped_hitstop_first(dt) ==
    /\ paused \/ game_over \/ hit_stop_duration > 0
    /\ hit_stop_duration' =
           IF hit_stop_duration > 0 THEN hit_stop_duration - 1 ELSE hit_stop_duration
    /\ UNCHANGED << player, enemies, score, max_enemies_on_screen, spawn_timer,
                    screen_shake, combo_count, combo_timer, paused, game_over,
                    particles, savegame, hurt, steps >>
    /\ obs' = [NoObs EXCEPT !.op = "update", !.frozen = ~(paused \/ game_over),
                            !.pre = Pre]
    /\ lastKill' = IF ~(paused \/ game_over)
                   THEN [lastKill EXCEPT !.frozen = @ + 1]
                   ELSE lastKill
    /\ since' = IF since.valid THEN [since EXCEPT !.all = Sat(@ + Ms(dt))] ELSE since

\* lines 170-172 and 174-179: an update that does not run the gameplay logic
UpdateSkipped(dt) ==
    /\ paused \/ game_over \/ hit_stop_duration > 0
    /\ hit_stop_duration' =
           IF ~(paused \/ game_over) THEN hit_stop_duration - 1 ELSE hit_stop_duration
    /\ UNCHANGED << player, enemies, score, max_enemies_on_screen, spawn_timer,
                    screen_shake, combo_count, combo_timer, paused, game_over,
                    particles, savegame, hurt, steps >>
    /\ obs' = [NoObs EXCEPT !.op = "update", !.frozen = ~(paused \/ game_over),
                            !.pre = Pre]
    /\ lastKill' = IF ~(paused \/ game_over)
                   THEN [lastKill EXCEPT !.frozen = @ + 1]
                   ELSE lastKill
    /\ since' = IF since.valid THEN [since EXCEPT !.all = Sat(@ + Ms(dt))] ELSE since

\* faulty variant of UpdateTimers: a lapsed combo timer leaves the combo count
UpdateTimers_noexpiry(keys, dt) ==
    LET timer1 == IF combo_count > 0 THEN combo_timer - Ms(dt) ELSE combo_timer
        alive0 == Player_is_alive(player)
    IN  [ shake |-> shake_decay(screen_shake, dt),
          timer |-> timer1,
          combo |-> combo_count,
          parts |-> ParticleSystem_update(particles, dt),
          alive |-> alive0,
          player |-> IF alive0 THEN Player_update(player, keys, dt) ELSE player ]

\* lines 181-199: the timers and the particles, then Player.update
UpdateTimers(keys, dt) ==
    LET timer1 == IF combo_count > 0 THEN combo_timer - Ms(dt) ELSE combo_timer
        alive0 == Player_is_alive(player)
    IN  [ shake |-> shake_decay(screen_shake, dt),
          timer |-> timer1,
          combo |-> IF combo_count > 0 /\ timer1 <= 0 THEN 0 ELSE combo_count,
          parts |-> ParticleSystem_update(particles, dt),
          alive |-> alive0,
          player |-> IF alive0 THEN Player_update(player, keys, dt) ELSE player ]

\* lines 209-214: the attack key, Player.attack and the scan of the enemies
UpdateAttack(t, keys) ==
    LET tried == t.alive /\ keys.attack
        att == IF tried THEN Player_attack(t.player) ELSE [ok |-> FALSE, player |-> t.player]
        r == get_attack_rect(att.player)
        loop == IF att.ok THEN AttackLoop(enemies, r, 1)
                          ELSE [enemies |-> enemies, hit |-> 0]
    IN  [ tried |-> tried, ok |-> att.ok, player |-> att.player,
          enemies |-> loop.enemies, hit |-> loop.hit,
          died |-> loop.hit # 0 /\ ~Enemy_is_alive(loop.enemies[loop.hit]),
          overlap |-> IF att.ok
                      THEN { i \in 1..Len(enemies) :
                               /\ Enemy_is_alive(enemies[i])
                               /\ check_collision(r, Enemy_rect(enemies[i])) }
                      ELSE {} ]

\* faulty variant of UpdateKill: the kill does not set the screen shake
UpdateKill_noshake(t, a, spK) ==
    LET score1 == IF a.died THEN score + 1 ELSE score
        healed == a.died /\ heal_due(score1)
        p3 == IF healed THEN heal(a.player) ELSE a.player
    IN  [ score |-> score1, healed |-> healed,
          acc |-> [ enemies |-> IF a.died
                                THEN Append(a.enemies, spawn_single_enemy(score1, p3, spK))
                                ELSE a.enemies,
                    player |-> p3,
                    screen_shake |-> t.shake,
                    combo_count |-> IF a.died THEN t.combo + 1 ELSE t.combo,
                    hits |-> 0, touched |-> FALSE ] ]

\* faulty variant of UpdateKill: a kill is worth the combo it continues
UpdateKill_combo_score(t, a, spK) ==
    LET score1 == IF a.died THEN score + t.combo + 1 ELSE score
        healed == a.died /\ heal_due(score1)
        p3 == IF healed THEN heal(a.player) ELSE a.player
    IN  [ score |-> score1, healed |-> healed,
          acc |-> [ enemies |-> IF a.died
                                THEN Append(a.enemies, spawn_single_enemy(score1, p3, spK))
                                ELSE a.enemies,
                    player |-> p3,
                    screen_shake |-> IF a.died THEN 10 ELSE t.shake,
                    combo_count |-> IF a.died THEN t.combo + 1 ELSE t.combo,
                    hits |-> 0, touched |-> FALSE ] ]

\* faulty variant of UpdateKill: no replacement is spawned
UpdateKill_noreplace(t, a, spK) ==
    LET score1 == IF a.died THEN score + 1 ELSE score
        healed == a.died /\ heal_due(score1)
        p3 == IF healed THEN heal(a.player) ELSE a.player
    IN  [ score |-> score1, healed |-> healed,
          acc |-> [ enemies |-> a.enemies,
                    player |-> p3,
                    screen_shake |-> IF a.died THEN 10 ELSE t.shake,
                    combo_count |-> IF a.died THEN t.combo + 1 ELSE t.combo,
                    hits |-> 0, touched |-> FALSE ] ]

\* lines 217-237: the effects of a kill; spK: the draws of the replacement
UpdateKill(t, a, spK) ==
    LET score1 == IF a.died THEN score + 1 ELSE score
        healed == a.died /\ heal_due(score1)
        p3 == IF healed THEN heal(a.player) ELSE a.player
    IN  [ score |-> score1, healed |-> healed,
          acc |-> [ enemies |-> IF a.died
                                THEN Append(a.enemies, spawn_single_enemy(score1, p3, spK))
                                ELSE a.enemies,
                    player |-> p3,
                    screen_shake |-> IF a.died THEN 10 ELSE t.shake,
                    combo_count |-> IF a.died THEN t.combo + 1 ELSE t.combo,
                    hits |-> 0, touched |-> FALSE ] ]

\* the time counted since the last successful attack, at this frame's attempt
Elapsed(t, dt) ==
    IF since.valid
    THEN [since EXCEPT
            !.all = Sat(@ + Ms(dt)),
            !.upd = IF t.alive THEN Sat(@ + Ms(dt)) ELSE @,
            !.normal = IF t.alive /\ ~t.player.is_dashing THEN Sat(@ + Ms(dt)) ELSE @]
    ELSE since

\* the cooldown counted down since the last contact damage, when this
\* frame's enemies are tested against the player
Hurt(t) ==
    IF hurt.known
    THEN [hurt EXCEPT
            !.counted = HurtSat(@ + (player.attack_cooldown - t.player.attack_cooldown))]
    ELSE hurt

\* the enemies Enemy.update is called on (line 245), as they are before the call
Seen(es) ==
    LET live == SelectSeq(es, Enemy_is_alive)
    IN  [i \in 1..Len(live) |-> [x |-> live[i].x, on_ground |-> live[i].on_ground]]

\* lines 181-280: an update that runs the gameplay logic
UpdateGameplay(keys, dt) ==
    /\ ~paused /\ ~game_over /\ hit_stop_duration = 0
    /\ \E t \in {UpdateTimers(keys, dt)} :
       \E a \in {UpdateAttack(t, keys)} :
       \E spK \in IF a.died THEN SpawnChoices ELSE {NoChoice},
          dust \in IF t.alive /\ t.player.is_dashing THEN BOOLEAN ELSE {FALSE} :
       \E k \in {UpdateKill(t, a, spK)} :
       \E acc \in {IF Player_is_alive(k.acc.player)
                   THEN EnemyLoop(k.acc, k.acc.player.x, dt, 1)
                   ELSE k.acc} :
       \E es3 \in {remove_dead(acc.enemies)} :
         LET timer2 == spawn_timer + dt
             tick == timer2 > spawn_interval
             tickSpawn == tick /\ maintain_spawns(es3, max_enemies_on_screen)
             dead == ~Player_is_alive(acc.player)
             count == (IF dust THEN 2 ELSE 0) + (IF a.died THEN 20 ELSE 0)
                      + (IF k.healed THEN 15 ELSE 0) + 5 * acc.hits
         IN  \E spT \in IF tickSpawn THEN SpawnChoices ELSE {NoChoice},
                life \in IF count > 0 THEN ParticleLifetimes ELSE {0} :
               /\ player' = acc.player
               /\ enemies' = IF tickSpawn
                             THEN Append(es3, spawn_single_enemy(k.score, acc.player, spT))
                             ELSE es3
               /\ score' = k.score
               /\ max_enemies_on_screen' =
                      IF tick THEN enemy_cap(k.score) ELSE max_enemies_on_screen
               /\ spawn_timer' = IF tick THEN 0 ELSE timer2
               /\ screen_shake' = acc.screen_shake
               /\ hit_stop_duration' = IF a.died THEN 3 ELSE hit_stop_duration
               /\ combo_count' = acc.combo_count
               /\ combo_timer' = IF a.died THEN combo_timeout ELSE t.timer
               /\ paused' = paused
               /\ game_over' = dead
               /\ particles' = ParticleSystem_emit(t.parts, count, life)
               /\ savegame' = IF dead THEN save_savegame(0, 100, k.score) ELSE savegame
               /\ obs' = [NoObs EXCEPT
                            !.op = "update", !.ran = TRUE,
                            !.tried = a.tried, !.ok = a.ok,
                            !.attack_changed = a.player # t.player,
                            !.hp_before = [i \in 1..Len(enemies) |-> enemies[i].health],
                            !.kill = lastKill,
                            !.cd_before = t.player.attack_cooldown,
                            !.cd_after = a.player.attack_cooldown,
                            !.overlap = a.overlap,
                            !.hit = a.hit, !.died = a.died,
                            !.hp_after = [i \in 1..Len(enemies) |-> a.enemies[i].health],
                            !.combo_decayed = t.combo,
                            !.kill_spawns = IF a.died THEN 1 ELSE 0,
                            !.tick_spawns = IF tickSpawn THEN 1 ELSE 0,
                            !.touched = acc.touched, !.hits = acc.hits,
                            !.dashing = k.acc.player.is_dashing,
                            !.mid = [health |-> k.acc.player.health,
                                     attack_cooldown |-> k.acc.player.attack_cooldown,
                                     combo_count |-> k.acc.combo_count],
                            !.pre = Pre,
                            !.tick = tick, !.n_alive = Len(es3), !.dt = dt,
                            !.parts_kept = Len(t.parts),
                            !.parts_zero = \E i \in 1..Len(particles) :
                                               Particle_update(particles[i], dt) = 0,
                            !.emitted = count,
                            !.hurt = Hurt(t),
                            !.player_x = k.acc.player.x,
                            !.seen = IF Player_is_alive(k.acc.player)
                                     THEN Seen(k.acc.enemies)
                                     ELSE << >>,
                            !.elapsed = Elapsed(t, dt),
                            !.saves = IF dead THEN 1 ELSE 0]
               /\ since' = IF a.ok
                           THEN [valid |-> TRUE, all |-> 0, upd |-> 0, normal |-> 0,
                                 hit |-> acc.hits > 0]
                           ELSE [Elapsed(t, dt) EXCEPT
                                   !.hit = @ \/ (since.valid /\ acc.hits > 0)]
               /\ lastKill' = IF a.died
                              THEN [known |-> TRUE, frozen |-> 0, ms |-> 0]
                              ELSE IF lastKill.known
                              THEN [lastKill EXCEPT !.ms = ComboSat(@ + Ms(dt))]
                              ELSE lastKill
               /\ hurt' = IF acc.hits > 0 THEN [known |-> TRUE, counted |-> 0] ELSE Hurt(t)
               /\ steps' = steps + 1

\* ---- GameScene.start(action = "new_game"), lines 76-119; c: the spawn draws
StartNewGame(c) ==
    LET p == Player_init(WINDOW_WIDTH \div 2, PLAYER_GROUND_Y)
    IN  /\ paused' = FALSE
        /\ game_over' = FALSE
        /\ screen_shake' = 0
        /\ combo_count' = 0
        /\ score' = 0
        /\ player' = p
        /\ enemies' = IF maintain_spawns(<< >>, max_enemies_on_screen)
                      THEN << spawn_single_enemy(0, p, c) >>
                      ELSE << >>
        /\ UNCHANGED << max_enemies_on_screen, spawn_timer, hit_stop_duration,
                        combo_timer, particles, savegame >>

\* ---- GameScene.start(action = "continue"), lines 76-119; c: the spawn draws
StartContinue(c) ==
    LET save_data == load_savegame(savegame)
        s0 == save_get(save_data, "score", 0)
        sc == IF s0 = 0 THEN save_get(save_data, "enemies_defeated", 0) ELSE s0
        p == [ Player_init(WINDOW_WIDTH \div 2, PLAYER_GROUND_Y) EXCEPT
                 !.health = save_get(save_data, "player_health", 100) ]
    IN  /\ paused' = FALSE
        /\ game_over' = FALSE
        /\ screen_shake' = 0
        /\ combo_count' = 0
        /\ crashed' = load_raises(savegame)
        /\ IF load_raises(savegame)
           THEN UNCHANGED << score, player, enemies >>
           ELSE /\ score' = sc
                /\ player' = p
                /\ enemies' = IF maintain_spawns(<< >>, max_enemies_on_screen)
                              THEN << spawn_single_enemy(sc, p, c) >>
                              ELSE << >>
        /\ UNCHANGED << max_enemies_on_screen, spawn_timer, hit_stop_duration,
                        combo_timer, particles, savegame >>

\* handle_event, lines 292-298: KEYDOWN of K_ESCAPE
HandleEscape ==
    /\ paused' = ~paused
    /\ UNCHANGED << player, enemies, score, max_enemies_on_screen, spawn_timer,
                    screen_shake, hit_stop_duration, combo_count, combo_timer,
                    game_over, particles, savegame, since, lastKill, hurt >>
    /\ steps' = steps + 1
    /\ obs' = [NoObs EXCEPT !.op = "escape", !.pre = Pre]

\* handle_event, lines 300-302: KEYDOWN of K_r in the game-over state
HandleRestart ==
    /\ game_over
    /\ \E c \in SpawnChoices : StartNewGame(c)
    /\ obs' = [NoObs EXCEPT !.op = "restart", !.pre = Pre]
    /\ since' = NoSince
    /\ lastKill' = NoKill
    /\ hurt' = NoHurt
    /\ steps' = steps + 1

\* ---- the objects driven call by call
CallPlayerTakeDamage(amount) ==
    /\ steps < MaxCalls
    /\ player' = Player_take_damage(player, amount)
    /\ obs' = [obs EXCEPT !.op = "player_take_damage", !.amount = amount,
                          !.dashing = player.is_dashing, !.pre = Pre]
    /\ steps' = steps + 1
    /\ UNCHANGED << enemies, score, max_enemies_on_screen, spawn_timer,
                    screen_shake, hit_stop_duration, combo_count, combo_timer,
                    paused, game_over, particles, savegame, since, lastKill, hurt >>

CallEnemyTakeDamage(i, amount) ==
    /\ steps < MaxCalls
    /\ i \in 1..Len(enemies)
    /\ enemies' = [enemies EXCEPT ![i] = Enemy_take_damage(@, amount)]
    /\ obs' = [NoObs EXCEPT !.op = "enemy_take_damage", !.amount = amount,
                            !.hit = i,
                            !.pre = [Pre EXCEPT !.enemy_health = enemies[i].health]]
    /\ steps' = steps + 1
    /\ UNCHANGED << player, score, max_enemies_on_screen, spawn_timer,
                    screen_shake, hit_stop_duration, combo_count, combo_timer,
                    paused, game_over, particles, savegame, since, lastKill, hurt >>

\* Player.update called on a live player (GameScene.update, lines 199-200)
CallPlayerUpdate(keys, dt) ==
    /\ steps < MaxUpdates
    /\ Player_is_alive(player)
    /\ \E p1 \in {Player_update(player, keys, dt)} :
         LET at == DashSat(dash.upd + Ms(dt))
             started == p1.is_dashing /\ p1.dash_time = 200
             cd == IF player.dash_cooldown > 0
                   THEN player.dash_cooldown - Ms(dt)
                   ELSE player.dash_cooldown
         IN  /\ player' = p1
             /\ dash' = [ valid |-> dash.valid \/ started,
                          upd |-> IF started THEN 0 ELSE IF dash.valid THEN at ELSE 0,
                          cd0 |-> IF started THEN cd = 0 ELSE dash.cd0,
                          known |-> dash.valid,
                          was0 |-> dash.cd0,
                          before |-> dash.upd,
                          at |-> IF dash.valid THEN at ELSE 0,
                          started |-> started,
                          held |-> keys.shift,
                          moving |-> keys.left \/ keys.right,
                          entered |-> player.is_dashing ]
    /\ obs' = [NoObs EXCEPT !.op = "player_update", !.pre = Pre,
                            !.player = player, !.keys = keys, !.dt = dt]
    /\ steps' = steps + 1
    /\ UNCHANGED << enemies, score, max_enemies_on_screen, spawn_timer,
                    screen_shake, hit_stop_duration, combo_count, combo_timer,
                    paused, game_over, particles, savegame, since, lastKill, hurt,
                    current_scene, menu, pauseAt, running, crashed >>

\* ------------------------------------------------------------ initial states
\* A scene in play.  GameScene() and start("new_game") give InitFresh.  The
\* other initial states are scenes later in a run: the player has walked to
\* x = SeedPlayerX near the left edge and stands on the ground facing right,
\* the enemies have walked up to it, the spawn timer has just fired (0) or is
\* about to (1990), the cap is the one the last tick computed.  An enemy that
\* overlaps the player at the end of an update leaves attack_cooldown > 0
\* (lines 252-254), so the layout with such enemies has a cooldown running.
SeedPlayerX == ATTACK_RANGE \div 2

\* xs: the enemies' x in list order; the first two overlap the attack hitbox
\* without touching the player, the enemies of the third layout touch it
SeedScenes ==
    { [xs |-> << 105 >>, attack_cooldown |-> 0, score |-> 9, health |-> 50,
       spawn_timer |-> 0],
      [xs |-> << 105 >>, attack_cooldown |-> 0, score |-> 19, health |-> 95,
       spawn_timer |-> 1990],
      [xs |-> << 105, 107 >>, attack_cooldown |-> 0, score |-> 0, health |-> 100,
       spawn_timer |-> 1990],
      [xs |-> << 55, 107, 60 >>, attack_cooldown |-> 400, score |-> 3, health |-> 1,
       spawn_timer |-> 0] }

SeedSpeeds == << 800, 1300, 1000 >>

SeedEnemy(x, speed) ==
    [ Enemy_init(x * Unit, PLAYER_GROUND_Y * Unit, speed) EXCEPT
        !.on_ground = TRUE, !.state = "run",
        !.facing_right = x < SeedPlayerX,
        !.velocity_x = IF x < SeedPlayerX THEN speed ELSE -speed ]

SeedPlayer(h, cd) ==
    [ Player_init(SeedPlayerX, PLAYER_GROUND_Y) EXCEPT
        !.on_ground = TRUE, !.health = h, !.attack_cooldown = cd ]

InitFresh ==
    /\ player = Player_init(WINDOW_WIDTH \div 2, PLAYER_GROUND_Y)
    /\ \E c \in SpawnChoices :
          enemies = << spawn_single_enemy(0, player, c) >>
    /\ score = 0
    /\ max_enemies_on_screen = 5
    /\ spawn_timer = 0

InitSeed ==
    \E sc \in SeedScenes :
        /\ player = SeedPlayer(sc.health, sc.attack_cooldown)
        /\ enemies = [i \in 1..Len(sc.xs) |-> SeedEnemy(sc.xs[i], SeedSpeeds[i])]
        /\ score = sc.score
        /\ max_enemies_on_screen = enemy_cap(sc.score)
        /\ spawn_timer = sc.spawn_timer

\* Scenes later in a run, for the spawn tick and the contact damage.
\*   first   the first tick of a run is due: the scene of start("new_game")
\*           after 199 frame times with no key held (99 frames of 2.0 and one
\*           of 1.0); the enemy spawned 600 to the left was clamped to x = 0
\*           in the first frame and has walked 0.8 a frame time since
\*   duel    before the first tick: the enemy spawned 1000 to the right was
\*           clamped to x = 928 and has walked up to the player, who has walked
\*           right to meet it
\*   level   the last tick found score 15..19 (cap 6), the population has
\*           reached the cap, the score is 24 and a tick is due
\*   full    the cap and the population are 10, the score is 50, a tick is due
\*   touch   three enemies stand on the player, whose cooldown is running
\*   last    the same at health 1, the cap of a tick at score 5..9, a tick due
\* cap: max_enemies_on_screen, 5 before the first tick of the first run and
\* 3 + score // 5 (at most 10) for the score the last tick found
\* px: the player's x; xs: the enemies' x in list order (105: in reach of the
\* attack without touching; 55, 60, 107 with px = 5: see SeedScenes)
RunScenes ==
    { [name |-> "first", px |-> WINDOW_WIDTH \div 2, xs |-> << 158 >>,
       attack_cooldown |-> 0, score |-> 0, health |-> 100,
       spawn_timer |-> 1990, cap |-> 5],
      [name |-> "duel", px |-> 700, xs |-> << 800 >>,
       attack_cooldown |-> 0, score |-> 0, health |-> 100,
       spawn_timer |-> 1000, cap |-> 5],
      [name |-> "level", px |-> SeedPlayerX, xs |-> << 105, 300, 400, 500, 600, 700 >>,
       attack_cooldown |-> 0, score |-> 24, health |-> 80,
       spawn_timer |-> 1990, cap |-> 6],
      [name |-> "full", px |-> SeedPlayerX,
       xs |-> << 105, 250, 300, 350, 400, 450, 500, 550, 600, 700 >>,
       attack_cooldown |-> 0, score |-> 50, health |-> 60,
       spawn_timer |-> 1990, cap |-> 10],
      [name |-> "touch", px |-> SeedPlayerX, xs |-> << 55, 107, 60 >>,
       attack_cooldown |-> 400, score |-> 3, health |-> 3,
       spawn_timer |-> 0, cap |-> 3],
      [name |-> "last", px |-> SeedPlayerX, xs |-> << 55, 107, 60, 300 >>,
       attack_cooldown |-> 400, score |-> 6, health |-> 1,
       spawn_timer |-> 1990, cap |-> 4] }

RunSpeeds == << 800, 1300, 1000, 900, 1100, 1200, 850, 950, 1050, 1150 >>

RunEnemy(x, px, speed) ==
    [ Enemy_init(x * Unit, PLAYER_GROUND_Y * Unit, speed) EXCEPT
        !.on_ground = TRUE, !.state = "run",
        !.facing_right = x < px,
        !.velocity_x = IF x < px THEN speed ELSE -speed ]

InitRunScene ==
    \E sc \in RunScenes :
        /\ player = [ Player_init(sc.px, PLAYER_GROUND_Y) EXCEPT
                        !.on_ground = TRUE, !.health = sc.health,
                        !.attack_cooldown = sc.attack_cooldown ]
        /\ enemies = [i \in 1..Len(sc.xs) |-> RunEnemy(sc.xs[i], sc.px, RunSpeeds[i])]
        /\ score = sc.score
        /\ max_enemies_on_screen = sc.cap
        /\ spawn_timer = sc.spawn_timer

InitRest ==
    /\ screen_shake = 0
    /\ hit_stop_duration = 0
    /\ combo_count = 0
    /\ combo_timer = 0
    /\ paused = FALSE
    /\ game_over = FALSE
    /\ particles = << >>
    /\ obs = NoObs
    /\ since = NoSince
    /\ lastKill = NoKill
    /\ hurt = NoHurt
    /\ dash = NoDash
    /\ current_scene = "game_scene"
    /\ pauseAt = NoPause
    /\ running = TRUE
    /\ crashed = FALSE
    /\ steps = 0

InitScene == (InitFresh \/ InitSeed) /\ InitRest

\* a scene late in a run, no save file yet
InitRun ==
    /\ InitRunScene
    /\ InitRest
    /\ savegame = NoSave
    /\ menu = MainMenu_start(savegame)

\* no save file yet
Init ==
    /\ InitScene
    /\ savegame = NoSave
    /\ menu = MainMenu_start(savegame)

\* the main loop with the game scene current; there is no save file, or one
\* that the game did not write
InitMain ==
    /\ InitScene
    /\ savegame \in {NoSave} \cup SaveFiles
    /\ menu = MainMenu_start(savegame)

\* ------------------------------------------------------------ specifications
\* the scene driven by the main loop: frames and key events
FrameSkipped == UNCHANGED loopVars /\ \E dt \in DtSet : UpdateSkipped(dt)

FrameGameplay ==
    /\ steps < MaxSteps
    /\ UNCHANGED loopVars
    /\ \E keys \in KeyStates, dt \in DtSet : UpdateGameplay(keys, dt)

KeyEscape == steps < MaxSteps /\ UNCHANGED loopVars /\ HandleEscape

KeyRestart == steps < MaxSteps /\ UNCHANGED loopVars /\ HandleRestart

Next == FrameSkipped \/ FrameGameplay \/ KeyEscape \/ KeyRestart

Spec == Init /\ [][Next]_vars

\* the objects driven call by call: update and the take_damage methods
CallUpdate ==
    \/ UNCHANGED loopVars /\ \E dt \in DtSet : UpdateSkipped(dt)
    \/ /\ steps < MaxCalls
       /\ UNCHANGED loopVars
       /\ \E keys \in KeyStates, dt \in DtSet : UpdateGameplay(keys, dt)

CallPlayerDamage ==
    UNCHANGED loopVars /\ \E amount \in DamageAmounts : CallPlayerTakeDamage(amount)

CallEnemyDamage ==
    /\ UNCHANGED loopVars
    /\ \E i \in 1..Len(enemies), amount \in DamageAmounts : CallEnemyTakeDamage(i, amount)

NextCalls == CallUpdate \/ CallPlayerDamage \/ CallEnemyDamage

SpecCalls == Init /\ [][NextCalls]_vars

\* ---- a scene late in a run, driven by frames and the restart key
RunFrameSkipped == UNCHANGED loopVars /\ \E dt \in DtSet : UpdateSkipped(dt)

RunFrame ==
    /\ steps < MaxRun
    /\ UNCHANGED loopVars
    /\ \E keys \in MainKeys, dt \in DtSet : UpdateGameplay(keys, dt)

RunRestart == steps < MaxRun /\ UNCHANGED loopVars /\ HandleRestart

NextRun == RunFrameSkipped \/ RunFrame \/ RunRestart

SpecRun == InitRun /\ [][NextRun]_vars

\* ---- the scene started from the save file
\* frames of a run, no key held
StartFrame ==
    /\ steps < MaxStarts
    /\ ~crashed
    /\ UNCHANGED loopVars
    /\ \E dt \in DtSet : UpdateGameplay(NoKeys, dt)

\* data/savegame.json is replaced from outside the program
StartFile ==
    /\ steps < MaxStarts
    /\ ~crashed
    /\ \E file \in SaveFiles \cup BadFiles : savegame' = file
    /\ obs' = [NoObs EXCEPT !.op = "file", !.pre = Pre]
    /\ steps' = steps + 1
    /\ UNCHANGED << player, enemies, score, max_enemies_on_screen, spawn_timer,
                    screen_shake, hit_stop_duration, combo_count, combo_timer,
                    paused, game_over, particles, since, lastKill, hurt,
                    dash, current_scene, menu, pauseAt, running, crashed >>

\* GameScene.start(action = "continue")
CallStartContinue ==
    /\ steps < MaxStarts
    /\ ~crashed
    /\ \E c \in SpawnChoices : StartContinue(c)
    /\ obs' = [obs EXCEPT !.op = "continue", !.pre = Pre]
    /\ since' = NoSince
    /\ lastKill' = NoKill
    /\ hurt' = NoHurt
    /\ steps' = steps + 1
    /\ UNCHANGED << dash, current_scene, menu, pauseAt, running >>

NextStart == StartFrame \/ StartFile \/ CallStartContinue

SpecStart == Init /\ [][NextStart]_vars

\* ---- main.py: Game.run dispatching to the current scene
\* line 68: the loop goes on
LoopRuns == running /\ ~crashed

\* _change_scene("main_menu", None), lines 119-135; MainMenu.start raises when
\* load_savegame does, after line 42
ChangeToMenu ==
    /\ crashed' = load_raises(savegame)
    /\ IF load_raises(savegame)
       THEN /\ current_scene' = current_scene
            /\ menu' = [menu EXCEPT !.selected_option = 0]
       ELSE /\ current_scene' = "main_menu"
            /\ menu' = MainMenu_start(savegame)

\* main.py line 41: the scenes of Game.scenes
Registered == { "splash_screen", "main_menu", "game_scene" }

\* faulty variant of scene_registered: every name passes
scene_registered_any(scene_name) == TRUE

\* _change_scene, line 119
scene_registered(scene_name) == scene_name \in Registered

\* _change_scene(scene_name, data), lines 119-135; data: "" for None, else the
\* "action" of the dict; c: the spawn draws of GameScene.start
ChangeScene(scene_name, data, c) ==
    IF ~scene_registered(scene_name)
    THEN UNCHANGED << player, enemies, score, max_enemies_on_screen, spawn_timer,
                      screen_shake, hit_stop_duration, combo_count, combo_timer,
                      paused, game_over, particles, savegame,
                      current_scene, menu, crashed >>
    ELSE IF scene_name = "game_scene"
    THEN /\ IF data = "continue"
            THEN StartContinue(c)
            ELSE StartNewGame(c) /\ UNCHANGED crashed
         /\ current_scene' = IF crashed' THEN current_scene ELSE scene_name
         /\ UNCHANGED menu
    ELSE IF scene_name = "main_menu"
    THEN /\ ChangeToMenu
         /\ UNCHANGED << player, enemies, score, max_enemies_on_screen, spawn_timer,
                         screen_shake, hit_stop_duration, combo_count, combo_timer,
                         paused, game_over, particles, savegame >>
    ELSE \* SplashScreen.start; any other name is a KeyError at self.scenes[...]
         /\ crashed' = (scene_name # "splash_screen")
         /\ current_scene' = IF scene_name = "splash_screen"
                             THEN scene_name ELSE current_scene
         /\ UNCHANGED << player, enemies, score, max_enemies_on_screen, spawn_timer,
                         screen_shake, hit_stop_duration, combo_count, combo_timer,
                         paused, game_over, particles, savegame, menu >>

\* the pause inputs counted: K_ESCAPE pressed in whatever scene is current
PauseInput ==
    IF current_scene = "game_scene" /\ ~paused /\ ~game_over
    THEN [inputs |-> 1, score |-> score, player |-> player, enemies |-> enemies]
    ELSE IF pauseAt.inputs = 1 THEN [pauseAt EXCEPT !.inputs = 2] ELSE pauseAt

\* lines 92-96 with the game scene current
MainFrame ==
    /\ LoopRuns
    /\ current_scene = "game_scene"
    /\ UNCHANGED loopVars
    /\ \/ \E dt \in DtSet : UpdateSkipped(dt)
       \/ steps < MaxMain /\ \E keys \in MainKeys, dt \in DtSet : UpdateGameplay(keys, dt)

\* lines 92-96 with the menu current: MainMenu.update does nothing
MainMenuFrame ==
    /\ LoopRuns
    /\ current_scene = "main_menu"
    /\ obs' = [NoObs EXCEPT !.op = "menu_update", !.pre = Pre]
    /\ UNCHANGED << player, enemies, score, max_enemies_on_screen, spawn_timer,
                    screen_shake, hit_stop_duration, combo_count, combo_timer,
                    paused, game_over, particles, savegame, since, lastKill, hurt,
                    dash, current_scene, menu, pauseAt, running, crashed, steps >>

\* lines 76-89: KEYDOWN of K_ESCAPE handled by the game scene, which asks for
\* the main menu when it has paused
MainKeyEscape ==
    /\ steps < MaxMain
    /\ LoopRuns
    /\ current_scene = "game_scene"
    /\ HandleEscape
    /\ IF paused' THEN ChangeToMenu ELSE UNCHANGED << current_scene, menu, crashed >>
    /\ pauseAt' = PauseInput
    /\ UNCHANGED << dash, running >>

\* lines 76-89: KEYDOWN of K_ESCAPE handled by the menu, which ignores it
MenuKeyEscape ==
    /\ steps < MaxMain
    /\ LoopRuns
    /\ current_scene = "main_menu"
    /\ pauseAt' = PauseInput
    /\ obs' = [NoObs EXCEPT !.op = "escape", !.pre = Pre]
    /\ steps' = steps + 1
    /\ UNCHANGED << player, enemies, score, max_enemies_on_screen, spawn_timer,
                    screen_shake, hit_stop_duration, combo_count, combo_timer,
                    paused, game_over, particles, savegame, since, lastKill, hurt,
                    dash, current_scene, menu, running, crashed >>

\* KEYDOWN of K_r handled by the game scene
MainKeyRestart ==
    /\ steps < MaxMain
    /\ LoopRuns
    /\ current_scene = "game_scene"
    /\ HandleRestart
    /\ pauseAt' = NoPause
    /\ UNCHANGED << dash, current_scene, menu, running, crashed >>

\* KEYDOWN of K_UP or K_DOWN handled by the menu
MenuKeyMove ==
    /\ steps < MaxMain
    /\ LoopRuns
    /\ current_scene = "main_menu"
    /\ \E key \in {"up", "down"} :
          /\ menu' = IF key = "up" THEN MainMenu_up(menu) ELSE MainMenu_down(menu)
          /\ obs' = [NoObs EXCEPT !.op = "menu_key", !.request = key, !.pre = Pre]
    /\ steps' = steps + 1
    /\ UNCHANGED << player, enemies, score, max_enemies_on_screen, spawn_timer,
                    screen_shake, hit_stop_duration, combo_count, combo_timer,
                    paused, game_over, particles, savegame, since, lastKill, hurt,
                    dash, current_scene, pauseAt, running, crashed >>

\* KEYDOWN of K_RETURN handled by the menu: New Game or Continue
MenuSelectGame ==
    /\ steps < MaxMain
    /\ LoopRuns
    /\ current_scene = "main_menu"
    /\ select_option(menu).scene = "game_scene"
    /\ \E c \in SpawnChoices :
          IF select_option(menu).action = "continue"
          THEN StartContinue(c)
          ELSE StartNewGame(c) /\ UNCHANGED crashed
    /\ current_scene' = IF crashed' THEN current_scene ELSE "game_scene"
    /\ obs' = [NoObs EXCEPT !.op = select_option(menu).action, !.pre = Pre]
    /\ since' = NoSince
    /\ lastKill' = NoKill
    /\ hurt' = NoHurt
    /\ pauseAt' = NoPause
    /\ steps' = steps + 1
    /\ UNCHANGED << dash, menu, running >>

\* KEYDOWN of K_RETURN handled by the menu: Exit ends the loop (lines 85-87)
MenuSelectExit ==
    /\ steps < MaxMain
    /\ LoopRuns
    /\ current_scene = "main_menu"
    /\ select_option(menu).scene = "exit"
    /\ running' = FALSE
    /\ obs' = [NoObs EXCEPT !.op = "exit", !.pre = Pre]
    /\ steps' = steps + 1
    /\ UNCHANGED << player, enemies, score, max_enemies_on_screen, spawn_timer,
                    screen_shake, hit_stop_duration, combo_count, combo_timer,
                    paused, game_over, particles, savegame, since, lastKill, hurt,
                    dash, current_scene, menu, pauseAt, crashed >>

NextMain ==
    \/ MainFrame \/ MainMenuFrame
    \/ MainKeyEscape \/ MenuKeyEscape \/ MainKeyRestart
    \/ MenuKeyMove \/ MenuSelectGame \/ MenuSelectExit

SpecMain == InitMain /\ [][NextMain]_vars

\* the main loop started with no save file: every save is one the game wrote
SpecGame == Init /\ [][NextMain]_vars

\* ---- _change_scene driven call by call, with the frames of the loop
CallChangeScene ==
    /\ steps < MaxScenes
    /\ LoopRuns
    /\ \E scene_name \in SceneRequests, data \in SceneData, c \in SpawnChoices :
          /\ ChangeScene(scene_name, data, c)
          /\ obs' = [NoObs EXCEPT
                       !.op = "change_scene", !.request = scene_name,
                       !.started = IF scene_registered(scene_name) /\ ~crashed'
                                   THEN scene_name ELSE "",
                       !.pre = Pre]
    /\ since' = NoSince
    /\ lastKill' = NoKill
    /\ hurt' = NoHurt
    /\ pauseAt' = NoPause
    /\ steps' = steps + 1
    /\ UNCHANGED << dash, running >>

\* lines 92-96 with the splash screen current: SplashScreen.update asks for
\* the main menu once SPLASH_DURATION has gone by on the clock
SplashFrame ==
    /\ steps < MaxScenes
    /\ LoopRuns
    /\ current_scene = "splash_screen"
    /\ \/ ChangeToMenu
       \/ UNCHANGED << current_scene, menu, crashed >>
    /\ obs' = [NoObs EXCEPT !.op = "splash_update", !.pre = Pre]
    /\ steps' = steps + 1
    /\ UNCHANGED << player, enemies, score, max_enemies_on_screen, spawn_timer,
                    screen_shake, hit_stop_duration, combo_count, combo_timer,
                    paused, game_over, particles, savegame, since, lastKill, hurt,
                    dash, pauseAt, running >>

\* lines 92-96 with the game scene current
SceneFrame ==
    /\ LoopRuns
    /\ current_scene = "game_scene"
    /\ UNCHANGED loopVars
    /\ \/ \E dt \in DtSet : UpdateSkipped(dt)
       \/ steps < MaxScenes /\ \E keys \in MainKeys, dt \in DtSet : UpdateGameplay(keys, dt)

NextScenes == CallChangeScene \/ SplashFrame \/ SceneFrame \/ MainMenuFrame

SpecScenes == InitMain /\ [][NextScenes]_vars

\* ---- the player driven call by call from the ground and from mid-air
\* key states: nothing, dash, dash + left, jump, left, right, jump + dash
JumpKeys ==
    { NoKeys,
      [NoKeys EXCEPT !.shift = TRUE],
      [NoKeys EXCEPT !.shift = TRUE, !.left = TRUE],
      [NoKeys EXCEPT !.up = TRUE],
      [NoKeys EXCEPT !.left = TRUE],
      [NoKeys EXCEPT !.right = TRUE],
      [NoKeys EXCEPT !.up = TRUE, !.shift = TRUE] }

\* A player in mid-air: it jumped from the ground at x = 512 and n updates of
\* dt = 2.0 with no key held have run since, the jump update included.  Every
\* update adds PLAYER_GRAVITY to velocity_y and then velocity_y * dt to y.
\*   rising   n = 2
\*   falling  n = 35: the second update of dt = 2.0 from here reaches the
\*            ground line
\* The other players: the one Player.__init__ builds, and one standing on the
\* ground that an enemy has just hit (health 99, attack_cooldown 1200).
JumpUpdates == { 2, 35 }

\* velocity_y after n updates of a jump
JumpVelocity(n) == PLAYER_JUMP_STRENGTH + n * PLAYER_GRAVITY

\* y after n updates of dt = 2.0: the sum of the n velocities, times 2
JumpHeight(n) ==
    PLAYER_GROUND_Y * Unit
      + 2 * (n * PLAYER_JUMP_STRENGTH + ((n * (n + 1)) \div 2) * PLAYER_GRAVITY)

InitJumpScene ==
    /\ \/ \E n \in JumpUpdates :
             player = [ Player_init(WINDOW_WIDTH \div 2, PLAYER_GROUND_Y) EXCEPT
                          !.y = JumpHeight(n), !.velocity_y = JumpVelocity(n),
                          !.state = "jump" ]
       \/ player = Player_init(WINDOW_WIDTH \div 2, PLAYER_GROUND_Y)
       \/ player = SeedPlayer(PLAYER_HEALTH - 1, 1200)
    /\ enemies = << spawn_single_enemy(0, Player_init(WINDOW_WIDTH \div 2, PLAYER_GROUND_Y),
                                       [side |-> 1, distance |-> 1000, variance |-> 13]) >>
    /\ score = 0
    /\ max_enemies_on_screen = 5
    /\ spawn_timer = 0

InitJump ==
    /\ InitJumpScene
    /\ InitRest
    /\ savegame = NoSave
    /\ menu = MainMenu_start(savegame)

NextJump == \E keys \in JumpKeys, dt \in DtSet : CallPlayerUpdate(keys, dt)

SpecJump == InitJump /\ [][NextJump]_vars

\* ---- the particle system driven call by call
\* the counter saturates at the longest lifetime: only "at least 40" is asked
ParticleSat(v) == Min2(v, 40)

\* ParticleSystem.update(dt), as GameScene.update line 193 calls it; obs.aged:
\* the sum of dt*10 over the calls since the last burst
CallParticlesUpdate(dt) ==
    /\ particles' = ParticleSystem_update(particles, dt)
    /\ obs' = [NoObs EXCEPT !.op = "particles_update", !.dt = dt,
                            !.aged = ParticleSat(obs.aged + dt), !.pre = Pre]
    /\ UNCHANGED << player, enemies, score, max_enemies_on_screen, spawn_timer,
                    screen_shake, hit_stop_duration, combo_count, combo_timer,
                    paused, game_over, savegame, since, lastKill, hurt,
                    dash, current_scene, menu, pauseAt, running, crashed, steps >>

\* ParticleSystem.emit(x, y, count, ...)
CallParticlesEmit(count, life) ==
    /\ steps < MaxBursts
    /\ particles' = ParticleSystem_emit(particles, count, life)
    /\ obs' = [NoObs EXCEPT !.op = "particles_emit", !.emitted = count, !.pre = Pre]
    /\ steps' = steps + 1
    /\ UNCHANGED << player, enemies, score, max_enemies_on_screen, spawn_timer,
                    screen_shake, hit_stop_duration, combo_count, combo_timer,
                    paused, game_over, savegame, since, lastKill, hurt,
                    dash, current_scene, menu, pauseAt, running, crashed >>

\* an update with a frame time above 0
ParticlesAge == \E dt \in DtSet \ {0} : CallParticlesUpdate(dt)

\* an update with the frame time 0
ParticlesIdle == CallParticlesUpdate(0)

ParticlesBurst ==
    \E count \in BurstCounts, life \in ParticleLifetimes : CallParticlesEmit(count, life)

NextParticles == ParticlesAge \/ ParticlesIdle \/ ParticlesBurst

\* the scene of start("new_game") with no particles; updates with a frame
\* time above 0 keep coming (the loop of Game.run calls update every frame)
InitParticles ==
    /\ InitFresh
    /\ InitRest
    /\ savegame = NoSave
    /\ menu = MainMenu_start(savegame)

SpecParticles == InitParticles /\ [][NextParticles]_vars /\ WF_vars(ParticlesAge)

\* the player driven call by call: Player.update with every key state
NextPlayer == \E keys \in KeyStates, dt \in DtPlayer : CallPlayerUpdate(keys, dt)

SpecPlayer == Init /\ [][NextPlayer]_vars


\* ------------------------------------------------------------ properties
IsUpdate == obs.op = "update"

Ran == obs.op = "update" /\ obs.ran

MinOf(S) == CHOOSE m \in S : \A n \in S : m <= n

InRange(x, width) == 0 <= x /\ x <= (WINDOW_WIDTH - width) * Unit

\* C1: in an update whose attack succeeds at most one enemy's health changes:
\* the first live enemy in list order whose box overlaps the attack hitbox
\* goes to health 0 (and is removed), every other enemy keeps its health.
C1_OneKillPerAttack ==
    (Ran /\ obs.ok) =>
        LET n == Len(obs.hp_before)
            changed == { i \in 1..n : obs.hp_after[i] # obs.hp_before[i] }
        IN  /\ Len(obs.hp_after) = n
            /\ Cardinality(changed) <= 1
            /\ obs.overlap = {} => changed = {}
            /\ obs.overlap # {} =>
                   /\ changed = { MinOf(obs.overlap) }
                   /\ obs.hp_after[MinOf(obs.overlap)] = 0
            /\ Len(enemies) = n - Cardinality(changed) + obs.kill_spawns + obs.tick_spawns
            /\ \A i \in 1..Len(enemies) : enemies[i].health = 1

C1_Witness == Ran /\ obs.ok /\ Cardinality(obs.overlap) >= 2 /\ obs.died

\* C2: after a successful attack, an attack attempted before the Player.update
\* calls since then have counted 800 ms is refused and changes nothing of the
\* player; attack_cooldown is left as Player.update left it.
C2_CooldownGate ==
    (Ran /\ obs.tried /\ obs.elapsed.valid /\ obs.elapsed.upd < ATTACK_COOLDOWN) =>
        /\ ~obs.ok
        /\ ~obs.attack_changed
        /\ obs.cd_after = obs.cd_before

C2_Witness ==
    /\ Ran /\ obs.tried /\ obs.elapsed.valid
    /\ obs.elapsed.upd > 0 /\ obs.elapsed.upd < ATTACK_COOLDOWN
    /\ ~obs.ok

\* C3 as stated: an attack attempted when the GameScene.update calls since the
\* last successful attack have counted at least 800 ms succeeds, whatever the
\* frames in between were.
C3_Original ==
    (Ran /\ obs.tried /\ obs.elapsed.valid /\ obs.elapsed.all >= ATTACK_COOLDOWN) => obs.ok

\* C3 amended: the attempt succeeds when the Player.update calls that took the
\* normal (non-dash) path since the last successful attack have counted at
\* least 800 ms and no enemy has damaged the player since.
C3_CooldownExpires ==
    (/\ Ran /\ obs.tried /\ obs.elapsed.valid
     /\ obs.elapsed.normal >= ATTACK_COOLDOWN
     /\ ~obs.elapsed.hit) => obs.ok

C3_Witness ==
    /\ Ran /\ obs.tried /\ obs.elapsed.valid
    /\ obs.elapsed.normal >= ATTACK_COOLDOWN /\ ~obs.elapsed.hit
    /\ obs.ok

\* C4: while is_dashing, take_damage(amount) leaves health as it is for every
\* amount, and an enemy overlapping a dashing player in an update changes
\* neither the player's health nor attack_cooldown nor the combo count.
C4_DashImmunity ==
    /\ (obs.op = "player_take_damage" /\ obs.dashing) => player.health = obs.pre.health
    /\ (Ran /\ obs.dashing /\ obs.touched) =>
           /\ obs.hits = 0
           /\ player.health = obs.mid.health
           /\ player.attack_cooldown = obs.mid.attack_cooldown
           /\ combo_count = obs.mid.combo_count

\* a dashing player with no cooldown running was overlapped by an enemy in an
\* update, and take_damage with a positive amount was then called on it
C4_Witness ==
    /\ obs.op = "player_take_damage" /\ obs.dashing /\ obs.amount > 0
    /\ obs.ran /\ obs.touched /\ obs.mid.attack_cooldown <= 0

\* C5: health is never negative after a take_damage call of the player or of
\* an enemy, and take_damage on an entity whose health is 0 leaves it at 0.
C5_HealthFloor ==
    /\ player.health >= 0
    /\ \A i \in 1..Len(enemies) : enemies[i].health >= 0
    /\ (obs.op = "player_take_damage" /\ obs.pre.health = 0) => player.health = 0
    /\ (obs.op = "enemy_take_damage" /\ obs.pre.enemy_health = 0) =>
           enemies[obs.hit].health = 0

C5_Witness ==
    /\ obs.op = "player_take_damage" /\ ~obs.dashing
    /\ obs.amount > 0 /\ obs.pre.health = 0

\* C6: in every update in which the player's health decreases, combo_count is
\* 0 at the end of that update.
C6_ComboReset == (IsUpdate /\ player.health < obs.pre.health) => combo_count = 0

C6_Witness == IsUpdate /\ player.health < obs.pre.health /\ obs.pre.combo_count > 0

\* C7: after Player.update the player's x is in [0, WINDOW_WIDTH - PLAYER_WIDTH]
\* and after Enemy.update the enemy's x is in [0, WINDOW_WIDTH - ENEMY_WIDTH].
\* (In an update that runs the gameplay logic every enemy of the list is
\* updated but the one the spawn tick appends at the end.)
C7_HorizontalClamp ==
    Ran =>
        /\ InRange(player.x, PLAYER_WIDTH)
        /\ \A i \in 1..(Len(enemies) - obs.tick_spawns) : InRange(enemies[i].x, ENEMY_WIDTH)

\* the player stands clamped at the left edge and an enemy, spawned off
\* screen, stands clamped at an edge
C7_Witness ==
    /\ Ran /\ obs.tick_spawns = 0
    /\ player.x = 0 /\ ~player.facing_right
    /\ \E i \in 1..Len(enemies) :
          enemies[i].x \in {0, (WINDOW_WIDTH - ENEMY_WIDTH) * Unit}

\* C8: a kill arms 3 frozen updates: each of them, made while not paused and
\* not game-over, decrements hit_stop_duration and changes nothing else, the
\* update after them runs the gameplay logic, and hit_stop_duration is in 0..3.
C8_HitStop ==
    /\ [](hit_stop_duration \in 0..3)
    /\ []((IsUpdate /\ obs.died) => hit_stop_duration = 3)
    /\ []((Ran /\ obs.kill.known) => obs.kill.frozen = 3)
    /\ [][ (obs'.op = "update" /\ ~paused /\ ~game_over /\ hit_stop_duration > 0) =>
               /\ hit_stop_duration' = hit_stop_duration - 1
               /\ ~obs'.ran
               /\ UNCHANGED << player, enemies, score, max_enemies_on_screen,
                               spawn_timer, screen_shake, combo_count, combo_timer,
                               paused, game_over, particles, savegame >> ]_vars
    /\ [][ (obs'.op = "update" /\ ~paused /\ ~game_over /\ hit_stop_duration = 0) =>
               obs'.ran ]_vars

\* the gameplay logic runs again after a kill and its 3 frozen updates, with
\* the screen shake of the kill still on
C8_Witness == Ran /\ obs.kill.known /\ obs.kill.frozen = 3 /\ obs.pre.screen_shake = 10

\* C9: at the end of an update in which the attack kills an enemy the score is
\* one more than before, screen_shake is 10, hit_stop_duration is 3,
\* combo_count is one more than after this frame's timer decay, combo_timer
\* is 3000 and one replacement enemy has been appended; an update without a
\* kill does none of this.
C9_KillEffects ==
    /\ (IsUpdate /\ obs.died) =>
           /\ score = obs.pre.score + 1
           /\ screen_shake = 10
           /\ hit_stop_duration = 3
           /\ combo_count = obs.combo_decayed + 1
           /\ combo_timer = combo_timeout
           /\ obs.kill_spawns = 1
           /\ Len(enemies) = obs.pre.n_enemies + obs.tick_spawns
    /\ (IsUpdate /\ ~obs.died) =>
           /\ score = obs.pre.score
           /\ hit_stop_duration <= obs.pre.hit_stop
           /\ combo_count <= obs.pre.combo_count
           /\ combo_timer <= obs.pre.combo_timer
           /\ screen_shake <= obs.pre.screen_shake \/ screen_shake = 5
           /\ obs.kill_spawns = 0
           /\ Len(enemies) = obs.pre.n_enemies + obs.tick_spawns

\* a second kill of a combo
C9_Witness == IsUpdate /\ obs.died /\ obs.combo_decayed = 1 /\ combo_count = 2

\* C10: a kill that brings the score to a positive multiple of 10 sets health
\* to min(max_health, health + 10), any other kill leaves health as it is,
\* health is raised at no other moment of a run and never exceeds max_health.
C10_HealOnMilestone ==
    /\ (IsUpdate /\ obs.died /\ score % 10 = 0) =>
           player.health = Min2(player.max_health, obs.pre.health + 10)
    /\ (IsUpdate /\ obs.died /\ score % 10 # 0) => player.health = obs.pre.health
    /\ ((IsUpdate /\ ~obs.died) \/ obs.op = "escape") => player.health <= obs.pre.health
    /\ player.health <= player.max_health

\* the scenario of the specification: score 9 and health 50 become 10 and 60
C10_Witness ==
    /\ IsUpdate /\ obs.died
    /\ obs.pre.score = 9 /\ score = 10
    /\ obs.pre.health = 50 /\ player.health = 60


LastPlayerUpdate == obs.op = "player_update"

\* C11: a dash starts only when the Player.update calls since the previous
\* start have counted at least 1000 ms, however long the dash key is held,
\* and a dash that starts in a call entered while dashing starts after the
\* running dash has counted its 200 ms.
C11_DashCooldown ==
    LastPlayerUpdate =>
        /\ (dash.known /\ dash.started) => dash.at >= 1000
        /\ (dash.known /\ dash.held /\ dash.at < 1000) =>
               /\ ~dash.started
               /\ player.dash_cooldown = 1000 - dash.at
        /\ (dash.started /\ dash.entered) => (dash.known /\ dash.at >= 200)

\* the dash key is held before the cooldown has run out, after the dash ended
C11_Witness ==
    /\ LastPlayerUpdate /\ dash.known /\ dash.held
    /\ dash.at >= 200 /\ dash.at < 1000
    /\ ~dash.started /\ ~player.is_dashing

\* C12 as stated: a dash triggered at dash_cooldown 0 is on while less than
\* 200 ms have been counted, and the first Player.update at which 200 ms are
\* reached ends with is_dashing false and velocity_x 0, whatever the keys.
C12_Original ==
    LastPlayerUpdate =>
        /\ (dash.valid /\ dash.cd0 /\ dash.upd < 200) => player.is_dashing
        /\ (dash.known /\ dash.was0 /\ dash.before < 200 /\ dash.at >= 200) =>
               (~player.is_dashing /\ player.velocity_x = 0)

\* C12 amended: the dash is on while less than 200 ms have been counted; the
\* first Player.update at which 200 ms are reached ends with is_dashing false
\* unless it starts a new dash (dash key held and 1000 ms reached in the same
\* call), and with velocity_x 0 unless a left or right key is held in it
\* (then it is -PLAYER_SPEED or PLAYER_SPEED) or a new dash starts.
C12_DashLifecycle ==
    LastPlayerUpdate =>
        /\ (dash.valid /\ dash.upd < 200) => player.is_dashing
        /\ (dash.known /\ dash.before < 200 /\ dash.at >= 200) =>
               /\ dash.started <=> (dash.held /\ dash.at >= 1000)
               /\ ~dash.started => ~player.is_dashing
               /\ (~dash.started /\ ~dash.moving) => player.velocity_x = 0
               /\ (~dash.started /\ dash.moving) =>
                      player.velocity_x \in {-PLAYER_SPEED, PLAYER_SPEED}

\* a dash that lasted two calls ends exactly at 200 ms with no key held
C12_Witness ==
    /\ LastPlayerUpdate /\ dash.known /\ dash.was0
    /\ dash.before = 100 /\ dash.at = 200
    /\ ~dash.moving /\ ~dash.held
    /\ ~player.is_dashing /\ player.velocity_x = 0


\* C13: game_over becomes true only in an update that runs the gameplay logic
\* and ends with the player's health at 0, it is true at the end of every
\* update that ends with health 0, and once true it stays true, with the
\* score fixed, through every update and key event but the restart.
C13_GameOver ==
    /\ (IsUpdate /\ player.health = 0) => game_over
    /\ (obs.op # "init" /\ ~obs.pre.game_over /\ game_over) =>
           (Ran /\ player.health = 0)
    /\ (obs.op \notin {"init", "restart"} /\ obs.pre.game_over) =>
           (game_over /\ score = obs.pre.score)

\* the game is over and frames and the pause key have gone by since
C13_Witness ==
    /\ IsUpdate /\ ~obs.ran /\ obs.pre.game_over
    /\ game_over /\ paused /\ player.health = 0 /\ score > 0

\* C14: save_savegame is called once in the update in which game_over becomes
\* true, with level 0, player_health 100 and enemies_defeated = the score,
\* and in no other operation; the file changes at no other moment.
C14_SaveOnGameOver ==
    /\ [](obs.saves \in {0, 1})
    /\ [](obs.saves = 1 =>
             /\ Ran /\ ~obs.pre.game_over /\ game_over
             /\ DOMAIN savegame = {"level", "player_health", "enemies_defeated"}
             /\ savegame.level = 0
             /\ savegame.player_health = 100
             /\ savegame.enemies_defeated = score)
    /\ []((IsUpdate /\ game_over /\ ~obs.pre.game_over) => obs.saves = 1)
    /\ [][ obs'.saves = 0 => savegame' = savegame ]_vars

C14_Witness ==
    /\ Ran /\ obs.saves = 1 /\ game_over
    /\ player.health = 0 /\ score = 3 /\ savegame.enemies_defeated = 3

\* C15: while paused or game_over is true an update changes nothing of the
\* scene: score, combo, timers, hit-stop counter, screen shake, particles,
\* player and enemies are the same before and after the call.
C15_FrozenWhilePaused ==
    [][ (obs'.op = "update" /\ (paused \/ game_over)) =>
            /\ ~obs'.ran
            /\ UNCHANGED << player, enemies, score, max_enemies_on_screen,
                            spawn_timer, screen_shake, hit_stop_duration,
                            combo_count, combo_timer, paused, game_over,
                            particles, savegame >> ]_vars

\* an update made while paused in the middle of a hit-stop, the shake and the
\* particles of the kill still there
C15_Witness ==
    /\ IsUpdate /\ ~obs.ran /\ ~obs.frozen
    /\ paused /\ ~game_over
    /\ hit_stop_duration = 3 /\ screen_shake = 10 /\ combo_count = 1
    /\ Len(particles) > 0

\* C17 as stated: after the restart action the whole scene state is that of
\* a freshly constructed scene after start('new_game').
C17_FullReset ==
    obs.op = "restart" =>
        /\ score = 0 /\ combo_count = 0 /\ screen_shake = 0
        /\ hit_stop_duration = 0 /\ spawn_timer = 0
        /\ max_enemies_on_screen = 5
        /\ particles = << >>
        /\ ~paused /\ ~game_over
        /\ player = Player_init(WINDOW_WIDTH \div 2, PLAYER_GROUND_Y)
        /\ Len(enemies) = 1

\* C19: within a run the score changes only in an update in which an enemy
\* is killed, and then by exactly +1; it is never negative.
C19_ScoreMonotone ==
    /\ score >= 0
    /\ (obs.op \notin {"init", "restart"}) =>
           \/ score = obs.pre.score
           \/ Ran /\ obs.died /\ score = obs.pre.score + 1

\* the second kill of a run
C19_Witness == Ran /\ obs.died /\ obs.pre.score = 1 /\ score = 2

\* the enemies left alive by the attack of an update, in list order
Survivors(es, hp) ==
    SelectSeq([i \in 1..Len(es) |-> [speed |-> es[i].speed, health |-> hp[i]]],
              LAMBDA r : r.health > 0)

\* C20: an update that runs the gameplay logic ends with live enemies only,
\* the enemies it removes are exactly those at health 0, the others stay in
\* list order, and no other operation of a run removes an enemy.
C20_DeadRemoved ==
    /\ [](Ran => \A i \in 1..Len(enemies) : enemies[i].health > 0)
    /\ [][ (obs'.op = "update" /\ obs'.ran) =>
               LET kept == Survivors(enemies, obs'.hp_after)
               IN  /\ Len(enemies') = Len(kept) + obs'.kill_spawns + obs'.tick_spawns
                   /\ \A k \in 1..Len(kept) : enemies'[k].speed = kept[k].speed ]_vars
    /\ [][ (obs'.op \in {"update", "escape"} /\ ~obs'.ran) => enemies' = enemies ]_vars

\* a kill among three enemies, one of them held at the left edge of the screen
C20_Witness ==
    /\ Ran /\ obs.died /\ Len(obs.hp_after) = 3 /\ Len(enemies) >= 3
    /\ \E i \in 1..Len(enemies) : enemies[i].x = 0


\* C16 as stated: in the main loop a pause input while the game runs pauses
\* it, and a second pause input brings the game scene back, running, with
\* the score, the player and the enemies it had when the pause began.
C16_PauseResume ==
    /\ pauseAt.inputs = 1 => paused
    /\ pauseAt.inputs = 2 =>
           /\ current_scene = "game_scene"
           /\ ~paused
           /\ score = pauseAt.score
           /\ player = pauseAt.player
           /\ enemies = pauseAt.enemies

\* C18: start(action = 'continue') after a game-over with score S gives
\* score S and health 100; the score is the record's "score" when that is
\* present and not 0 and its "enemies_defeated" (0 if absent) otherwise; the
\* health is the record's "player_health", 100 if absent.
C18_ContinueRoundTrip ==
    (obs.op = "continue" /\ savegame \notin BadFiles) =>
        LET d == IF savegame = NoSave
                 THEN [level |-> 0, player_health |-> 100, enemies_defeated |-> 0]
                 ELSE savegame
            has(k) == k \in DOMAIN d
        IN  /\ (obs.saves = 1 /\ obs.pre.game_over) =>
                   (score = obs.pre.score /\ player.health = 100)
            /\ (has("score") /\ d.score # 0) => score = d.score
            /\ (~has("score") \/ d.score = 0) =>
                   score = IF has("enemies_defeated") THEN d.enemies_defeated ELSE 0
            /\ has("player_health") => player.health = d.player_health
            /\ ~has("player_health") => player.health = 100
            /\ ~game_over /\ ~paused

\* a run that ended at score 3 is continued from the record it saved
C18_Witness ==
    /\ obs.op = "continue" /\ obs.saves = 1 /\ obs.pre.game_over
    /\ obs.pre.score = 3 /\ score = 3
    /\ obs.pre.health = 0 /\ player.health = 100


\* C21: _maintain_enemies adds one enemy when the count is below
\* max_enemies_on_screen and none otherwise, never more than one; update
\* calls it exactly when the spawn timer, advanced by this frame, has
\* exceeded 2000, and the timer is then 0; start() calls it on the empty list.
C21_MaintainOne ==
    /\ Ran =>
           /\ obs.tick <=> (obs.pre.spawn_timer + obs.dt > spawn_interval)
           /\ obs.tick =>
                  /\ spawn_timer = 0
                  /\ obs.tick_spawns =
                         IF obs.n_alive < obs.pre.max_enemies THEN 1 ELSE 0
           /\ ~obs.tick =>
                  /\ obs.tick_spawns = 0
                  /\ spawn_timer = obs.pre.spawn_timer + obs.dt
           /\ Len(enemies) = obs.n_alive + obs.tick_spawns
           /\ Len(enemies) = obs.pre.n_enemies + obs.tick_spawns
    /\ obs.op = "restart" => Len(enemies) = 1

\* the tick fires with the population at the cap: nothing is added
C21_Witness ==
    /\ Ran /\ obs.tick /\ obs.tick_spawns = 0
    /\ obs.pre.spawn_timer = 1990 /\ spawn_timer = 0
    /\ obs.n_alive = 6 /\ obs.pre.max_enemies = 6 /\ Len(enemies) = 6

\* C22: when the spawn tick fires max_enemies_on_screen becomes
\* min(10, 3 + floor(score / 5)) for the score of that moment (7 at score 24,
\* 10 at score 50), and max_enemies_on_screen is at most 10 in every state.
C22_CapFormula ==
    /\ (Ran /\ obs.tick) => max_enemies_on_screen = Min2(10, 3 + (score \div 5))
    /\ (Ran /\ obs.tick /\ score = 24) => max_enemies_on_screen = 7
    /\ (Ran /\ obs.tick /\ score = 50) => max_enemies_on_screen = 10
    /\ max_enemies_on_screen <= 10

\* the scenario of the specification: the tick at score 24 raises the cap to 7
C22_Witness ==
    /\ Ran /\ obs.tick /\ score = 24
    /\ obs.pre.max_enemies = 6 /\ max_enemies_on_screen = 7

\* C25: every particle of the live set has lifetime > 0 at the end of every
\* operation: ParticleSystem.update drops the particles it has aged to 0 or
\* below, and the particles emitted afterwards start above 0.
C25_ParticlesAlive ==
    /\ \A i \in 1..Len(particles) : particles[i] > 0
    /\ Ran =>
           /\ Len(particles) = obs.parts_kept + obs.emitted
           /\ obs.parts_kept <= obs.pre.n_particles
           /\ obs.parts_zero => obs.parts_kept < obs.pre.n_particles

\* particles reach lifetime exactly 0 in an update and are gone after it
C25_Witness ==
    /\ Ran /\ obs.parts_zero /\ obs.pre.n_particles > 0
    /\ obs.parts_kept = 0 /\ obs.emitted = 0 /\ particles = << >>

\* C26: an update lowers the player's health by at most 1, at most one enemy
\* damages the player in it, and after a contact damage the next one comes
\* only when Player.update has counted at least 1200 down from
\* attack_cooldown; until then the health does not decrease.
C26_InvincibilityWindow ==
    /\ IsUpdate => player.health >= obs.pre.health - 1
    /\ Ran =>
           /\ obs.hits <= 1
           /\ obs.hits = 1 => player.attack_cooldown = 1200
           /\ (obs.hits = 1 /\ obs.hurt.known) => obs.hurt.counted >= 1200
           /\ (obs.hurt.known /\ obs.hurt.counted < 1200) =>
                  (obs.hits = 0 /\ player.health >= obs.pre.health)

\* the second contact damage of a player with enemies standing on it
C26_Witness ==
    /\ Ran /\ obs.hits = 1 /\ obs.touched
    /\ obs.hurt.known /\ obs.hurt.counted >= 1200
    /\ obs.pre.health = 2 /\ player.health = 1

\* C27: in an update that runs the gameplay logic with the attack key held,
\* attack_cooldown is > 0 when the enemies are tested against the player, no
\* enemy damages the player, the health does not decrease and the game is
\* not over; a kill and a contact damage never come in the same update.
C27_AttackShields ==
    /\ (Ran /\ obs.tried) =>
           /\ obs.mid.attack_cooldown > 0
           /\ obs.hits = 0
           /\ player.health >= obs.pre.health
           /\ ~game_over
    /\ (Ran /\ obs.died) => obs.hits = 0

\* a player at health 1 attacks, its cooldown just run out, with enemies
\* standing on it
C27_Witness ==
    /\ Ran /\ obs.tried /\ obs.ok /\ obs.touched /\ ~obs.dashing
    /\ obs.pre.health = 1 /\ player.health = 1

\* the enemies with health > 0
LiveEnemies == { i \in 1..Len(enemies) : Enemy_is_alive(enemies[i]) }

\* C28: at the end of every update, whatever came before it,
\* 1 <= number of live enemies <= max_enemies_on_screen <= 10.
C28_Population ==
    IsUpdate =>
        /\ 1 <= Cardinality(LiveEnemies)
        /\ Cardinality(LiveEnemies) <= max_enemies_on_screen
        /\ max_enemies_on_screen <= 10

\* the only enemy of the scene is killed and replaced
C28_Witness ==
    /\ Ran /\ obs.died /\ obs.pre.n_enemies = 1
    /\ Cardinality(LiveEnemies) = 1

\* C29: in an update in which an enemy is killed one replacement is spawned,
\* whatever the cap, so that the update ends with at least as many live
\* enemies as it began with.
C29_KillKeepsPressure ==
    (Ran /\ obs.died) =>
        /\ obs.kill_spawns = 1
        /\ obs.n_alive = obs.pre.n_enemies
        /\ Cardinality(LiveEnemies) >= obs.pre.n_enemies
        /\ Len(enemies) = obs.pre.n_enemies + obs.tick_spawns

\* a kill with the population at the cap of 10: ten enemies are left
C29_Witness ==
    /\ Ran /\ obs.died
    /\ obs.pre.n_enemies = 10 /\ obs.pre.max_enemies = 10
    /\ Cardinality(LiveEnemies) = 10

\* C30 as stated: within a run max_enemies_on_screen never decreases.
C30_CapNeverDecreases ==
    (obs.op \notin {"init", "restart"}) =>
        max_enemies_on_screen >= obs.pre.max_enemies


\* C23 as stated: start(action = 'continue') with the save file missing,
\* unreadable or not valid structured data raises nothing and begins with
\* score 0 and health 100, the game running.
C23_CorruptSave ==
    (obs.op = "continue" /\ savegame \in {NoSave} \cup BadFiles) =>
        /\ ~crashed
        /\ score = 0 /\ player.health = 100
        /\ ~game_over /\ ~paused

\* C24: _change_scene with a name that is not registered changes nothing:
\* current_scene, the menu and the scene are as before, no start() has run
\* and the loop goes on; current_scene is a registered scene in every state.
C24_UnknownSceneIgnored ==
    /\ [](current_scene \in Registered)
    /\ []((obs.op = "change_scene" /\ obs.request \notin Registered) =>
             (obs.started = "" /\ LoopRuns))
    /\ [][ (obs'.op = "change_scene" /\ obs'.request \notin Registered) =>
               UNCHANGED << player, enemies, score, max_enemies_on_screen,
                            spawn_timer, screen_shake, hit_stop_duration,
                            combo_count, combo_timer, paused, game_over,
                            particles, savegame, current_scene, menu,
                            running, crashed >> ]_vars

\* a scene that is not registered is asked for while the menu is current
C24_Witness ==
    /\ obs.op = "change_scene" /\ obs.request = "credits"
    /\ obs.pre.current_scene = "main_menu" /\ current_scene = "main_menu"


\* C31: a Player.update that ends with is_dashing true leaves y, on_ground,
\* the animation state, the facing direction, health and attack_cooldown as
\* they were, whatever keys are held, and moves x by dash_speed * dt
\* (2.5 * PLAYER_SPEED) in the facing direction, clamped to the screen.
C31_DashFrame ==
    (LastPlayerUpdate /\ player.is_dashing) =>
        LET old == obs.player
            step == (((PLAYER_SPEED * 25) \div 10) * obs.dt) \div 10
            raw == IF old.facing_right THEN old.x + step ELSE old.x - step
        IN  /\ player.y = old.y
            /\ player.on_ground = old.on_ground
            /\ player.state = old.state
            /\ player.facing_right = old.facing_right
            /\ player.health = old.health
            /\ player.attack_cooldown = old.attack_cooldown
            /\ player.velocity_y = 0
            /\ player.x = Max2(0, Min2(raw, (WINDOW_WIDTH - PLAYER_WIDTH) * Unit))

\* a dash in mid-air with the left key held, that moves the player
C31_Witness ==
    /\ LastPlayerUpdate /\ player.is_dashing
    /\ obs.keys.left /\ obs.dt > 0
    /\ ~obs.player.on_ground /\ obs.player.y < PLAYER_GROUND_Y * Unit
    /\ player.x > obs.player.x


Distance(a, b) == IF a >= b THEN a - b ELSE b - a

\* C32: whenever Enemy.update runs the enemy is closer to the player than its
\* detection_range of 3000 pixels, and an enemy whose x differs from the
\* player's x leaves the call with velocity_x of magnitude speed directed
\* toward the player: the "too far" branch is never taken.
C32_AlwaysPursue ==
    Ran =>
        \A i \in 1..Len(obs.seen) :
            /\ enemies[i].detection_range = 3000
            /\ Distance(obs.seen[i].x, obs.player_x) < enemies[i].detection_range * Unit
            /\ obs.seen[i].x < obs.player_x => enemies[i].velocity_x = enemies[i].speed
            /\ obs.seen[i].x > obs.player_x => enemies[i].velocity_x = -enemies[i].speed
            /\ enemies[i].speed > 0

\* an enemy spawned off the screen, 1000 pixels or more from the player, is
\* updated for the first time and runs toward the player
C32_Witness ==
    /\ Ran
    /\ \E i \in 1..Len(obs.seen) :
          /\ ~obs.seen[i].on_ground
          /\ obs.seen[i].x > (WINDOW_WIDTH - ENEMY_WIDTH) * Unit
          /\ Distance(obs.seen[i].x, obs.player_x) >= 1000 * Unit
          /\ enemies[i].velocity_x = -enemies[i].speed

\* C33 as stated: after every Enemy.update, the first one after the spawn
\* included, the enemy's state is "run" and it faces the player when its x
\* differed from the player's at the start of the call, "idle" when the x
\* were equal; the state is never "jump" and y is the ground line.
C33_EnemyAnimation ==
    Ran =>
        \A i \in 1..Len(obs.seen) :
            /\ obs.seen[i].x # obs.player_x =>
                   /\ enemies[i].state = "run"
                   /\ enemies[i].facing_right = (obs.seen[i].x < obs.player_x)
            /\ obs.seen[i].x = obs.player_x => enemies[i].state = "idle"
            /\ enemies[i].state # "jump"
            /\ enemies[i].y = PLAYER_GROUND_Y * Unit


\* C34: when the updates that ran the gameplay logic since the update of the
\* last kill have counted 3000 ms, combo_count is 0; until then the countdown
\* of a running combo is 3000 minus the time counted; combo_count is never
\* negative and is raised only by a kill, by one over its decayed value.
C34_ComboExpiry ==
    /\ combo_count >= 0
    /\ (lastKill.known /\ lastKill.ms >= combo_timeout) => combo_count = 0
    /\ (lastKill.known /\ combo_count > 0) => combo_timer = combo_timeout - lastKill.ms
    /\ (combo_count > obs.pre.combo_count \/ (combo_count > 0 /\ ~lastKill.known)) =>
           /\ Ran /\ obs.died
           /\ combo_count = obs.combo_decayed + 1

\* a combo lapses in an update without a kill and without a hit on the player
C34_Witness ==
    /\ Ran /\ ~obs.died /\ obs.hits = 0
    /\ lastKill.known /\ lastKill.ms >= combo_timeout
    /\ obs.pre.combo_count > 0 /\ combo_count = 0
    /\ combo_timer <= 0


\* C35 as stated: after every Player.update of a player built by
\* Player.__init__, whatever the keys (a dash triggered in the first update
\* included), the animation state is "jump" exactly when on_ground is false.
C35_JumpIffAirborne ==
    LastPlayerUpdate => (player.state = "jump" <=> ~player.on_ground)

\* C36: the player's y is never below the ground line (y <= PLAYER_GROUND_Y),
\* and whenever on_ground is true y is PLAYER_GROUND_Y and velocity_y is 0.
C36_GroundLine ==
    /\ player.y <= PLAYER_GROUND_Y * Unit
    /\ player.on_ground =>
           /\ player.y = PLAYER_GROUND_Y * Unit
           /\ player.velocity_y = 0

\* a falling player comes down on the ground line
C36_Witness ==
    /\ LastPlayerUpdate
    /\ ~obs.player.on_ground /\ obs.player.velocity_y > 0
    /\ obs.player.y < PLAYER_GROUND_Y * Unit
    /\ obs.player.y + Scaled(obs.player.velocity_y + PLAYER_GRAVITY, obs.dt)
           > PLAYER_GROUND_Y * Unit
    /\ player.on_ground


C38_ContinueGuard ==
    /\ ~menu.save_exists => menu.selected_option # 1
    /\ obs.op = "continue" => menu.save_exists
    /\ menu.selected_option \in 0..2

\* K_DOWN on New Game with no usable save: the selection skips to Exit
C38_Witness ==
    /\ obs.op = "menu_key" /\ obs.request = "down"
    /\ ~menu.save_exists
    /\ obs.pre.selected_option = 0 /\ menu.selected_option = 2


\* C39: with updates of positive frame time coming and no new burst, the
\* particle set becomes empty: from every state with particles a state with
\* none is reached unless a burst is emitted first.  A particle lives at most
\* until the sum of dt*10 over the updates since its burst reaches its
\* lifetime, which is at most 40.
C39_ParticlesDieOut ==
    /\ [](\A i \in 1..Len(particles) : particles[i] <= 40 - obs.aged)
    /\ [](obs.aged >= 40 => particles = << >>)
    /\ \A n \in 0..MaxBursts :
           (particles # << >> /\ steps = n) ~> (particles = << >> \/ steps > n)

\* the last particles of a burst of lifetime 40 are removed by the update
\* that brings the time counted since the burst to 40
C39_Witness ==
    /\ obs.op = "particles_update"
    /\ obs.pre.n_particles > 0 /\ particles = << >>
    /\ obs.aged = 40 /\ obs.dt = 4

=============================================================================
